---- MODULE Spec2Model ----
(***************************************************************************)
(* st_fast_rag backend: the /generate_stream relay (src/backend/main.py),  *)
(* the single-worker executor that carries its database calls, the         *)
(* provider adapter (src/backend/llm_abstraction.py) and the chat history  *)
(* table with its CRUD functions (src/backend/database.py, crud.py).       *)
(*                                                                         *)
(* One request of /generate_stream is a coroutine; pc[r] is the await at   *)
(* which it is suspended.  The executor is a FIFO queue served by one      *)
(* worker thread.  The provider stream and the caller's connection are the *)
(* environment: each pull yields a fragment, the end of the stream or an   *)
(* error, and the caller may disconnect while the response is open.        *)
(*                                                                         *)
(* SpecNotes is the notes endpoints and POST /chat_history/ with their     *)
(* thread pool and the crud functions for table notes; SpecClient is the   *)
(* functions of src/frontend/utils.py, each against what the transport and *)
(* the backend may do with its request; SpecPage is one session of the     *)
(* chat pages in src/frontend/pages.                                       *)
(* SpecLive is the relay over a store whose writes may fail, with the      *)
(* progress of the event loop, the worker thread and the provider;         *)
(* SpecHistory is one request and the listing in a session whose stored    *)
(* history is at the limit of the listing.                                 *)
(***************************************************************************)
EXTENDS Integers, Sequences, FiniteSets, TLC

VARIABLES
    env,           \* names of the credentials set in the process environment
    req,           \* req[r]: the GenerateRequest body of request r
    pc,            \* pc[r]: where the coroutine of request r is suspended
    status,        \* status[r]: HTTP status line sent to the caller (0: none yet)
    detail,        \* detail[r]: detail text of an error response
    body,          \* body[r]: the response body as the caller sees it
    relayed,       \* relayed[r]: fragments the caller has received, in order
    chunk,         \* chunk[r]: the fragment held at `yield chunk`
    full,          \* full[r]: assistant_response_full
    pulled,        \* pulled[r]: fragments the provider stream has produced
    exhausted,     \* exhausted[r]: the provider stream ended without error
    cause,         \* cause[r]: why request r failed
    discAt,        \* discAt[r]: the await at which the caller's disconnect hit
    trace,         \* trace[r]: the relay states request r went through
    queue,         \* executor: submitted work items not yet started
    running,       \* executor: the work item the one worker is executing
    chat_history,  \* table chat_history, rows in insertion order
    owner,         \* owner[i]: the request that wrote row i
    clock,         \* the database's func.now(), in whole seconds
    response,      \* the answer of GET /chat_history/{session_id} just produced
    notes,         \* table notes, rows in rowid order
    call,          \* call[c]: the request caller c has sent to a store endpoint
    at,            \* at[c]: how far the endpoint serving caller c has come
    result,        \* result[c]: what the crud function run for c returned or raised
    answer,        \* answer[c]: the HTTP response sent to caller c
    work_queue,    \* ThreadPoolExecutor: work items no thread has taken yet
    threads,       \* ThreadPoolExecutor: work items a worker thread is running
    fn,            \* frontend: the utils.py function that is being called
    http,          \* frontend: what transport and backend do with its request
    cpc,           \* frontend: how far the function has come
    yielded,       \* frontend: the text chunks call_generate_stream_api yielded
    outcome,       \* frontend: the function's return value or exception
    page,          \* chat page: the script that serves the session
    messages,      \* chat page: st.session_state.messages
    current_response, \* chat page: st.session_state.current_response
    ppc,           \* chat page: where the script is in the current turn
    chat_session_id, \* chat page: st.session_state.chat_session_id
    message_placeholder, \* chat page: what the placeholder of the answer shows
    turns          \* chat page: the prompts entered so far and how each ended

vars == <<env, req, pc, status, detail, body, relayed, chunk, full, pulled,
          exhausted, cause, discAt, trace, queue, running, chat_history,
          owner, clock, response, notes, call, at, result, answer,
          work_queue, threads, fn, http, cpc, yielded, outcome, page,
          messages, current_response, ppc, chat_session_id,
          message_placeholder, turns>>

\* the store endpoints other than GET /chat_history/{session_id}
gatewayVars == <<notes, call, at, result, answer, work_queue, threads>>

\* the functions of the frontend that call the backend
clientVars == <<fn, http, cpc, yielded, outcome>>

\* the chat page
pageVars == <<page, messages, current_response, ppc, chat_session_id,
              message_placeholder, turns>>

relayVars == <<req, pc, status, detail, body, relayed, chunk, full, pulled,
               exhausted, cause, discAt, trace>>

\* a step of /generate_stream or of the chat history listing touches nothing
\* of the other endpoints
RelayStep == UNCHANGED <<gatewayVars, clientVars, pageVars>>

-----------------------------------------------------------------------------
(* Bounds and sample values *)

\* at most this many fragments are drawn from one provider stream
MaxFrags == 2

\* requests, named in the order of their arrival
Reqs == {"r1", "r2"}

\* what the provider streams in answer to each request, as far as it gets
Stream == [r \in Reqs |-> IF r = "r1" THEN <<"Hel", "lo!", " How", " are">>
                                      ELSE <<"Bon", "jour", " Ca", " va">>]

\* a session under which no request of the model stores anything
UnknownSession == "s0"

Sessions == {"s1", "s2"}

\* process environments: which provider credentials are set
Envs == {{"ANTHROPIC_API_KEY"}, {"OPENAI_API_KEY"}}

\* temperature is carried in tenths: 3 is 0.3, 15 is 1.5
BaseRequest ==
    [question |-> "Hi", llm_provider |-> "claude",
     llm_model |-> "claude-3-haiku-20240307", temperature |-> 3,
     max_tokens |-> 1024, session_id |-> "s1"]

RequestInputs ==
    { BaseRequest,
      [BaseRequest EXCEPT !.llm_provider = "openai", !.llm_model = "gpt-4o"],
      [BaseRequest EXCEPT !.llm_provider = "llama"],
      [BaseRequest EXCEPT !.session_id = "s2", !.question = "",
                          !.llm_model = "no-such-model",
                          !.temperature = 15, !.max_tokens = 0] }

NoRequest == [question |-> "", llm_provider |-> "", llm_model |-> "",
              temperature |-> 0, max_tokens |-> 0, session_id |-> ""]

NoJob == [req |-> "", message |-> <<>>]

NoResponse == [session_id |-> "", rows |-> <<>>, status |-> 0]

\* callers of the store endpoints, each with one request under way at a time
Callers == {"a", "b"}

\* request bodies of POST /notes/ and PUT /notes/{note_id}: any two strings
NoteInputs == {[title |-> "", content |-> ""],
               [title |-> "Plan", content |-> "Buy milk"]}

\* note ids asked for: 1 and 2 may be stored, 9 never is
NoteIds == {1, 2, 9}

NoNote == [title |-> "-", content |-> "-"]

NoCall == [op |-> "", note_id |-> 0, note |-> NoNote, session_id |-> ""]

NoResult == [value |-> <<>>, raised |-> "-"]

NoAnswer == [status |-> 0, body |-> <<>>, detail |-> ""]

\* an exception; status_code is that of the response an HTTPStatusError holds
Error(type, status_code) == [type |-> type, status_code |-> status_code]

NoError == Error("", 0)

NoOutcome == [raised |-> NoError, returned |-> [type |-> "", items |-> <<>>]]

\* what the transport and the backend do with one request: the transport
\* fails before a response (failure), or a response arrives with a status
\* and a body; chunks is the body as the byte chunks it arrives in, json the
\* value the body parses to (is_json: it parses), broken the transport error
\* that ends the body early
Exchange(failure, status_code, chunks, is_json, json, broken) ==
    [failure |-> failure, status_code |-> status_code, chunks |-> chunks,
     is_json |-> is_json, json |-> json, broken |-> broken]

NoExchange == Exchange("", 0, <<>>, FALSE, <<>>, "")

-----------------------------------------------------------------------------
(* Pure helpers *)

RECURSIVE Concat(_)
Concat(s) == IF s = <<>> THEN "" ELSE Head(s) \o Concat(Tail(s))

Range(s) == {s[i] : i \in DOMAIN s}

Last(s) == s[Len(s)]

Min(a, b) == IF a <= b THEN a ELSE b

\* the relay state (spec 4.3) a coroutine position belongs to
RelayState(p) ==
    CASE p = "idle" -> "Idle"
      [] p \in {"validating", "await_user_write"} -> "Validating"
      [] p = "user_persisted" -> "UserPersisted"
      [] p \in {"pull", "send", "await_asst_write"} -> "Streaming"
      [] p \in {"asst_persisted", "completed"} -> "Completed"
      [] p \in {"rejected", "failed"} -> "Failed"

\* move request r to position p, recording a change of relay state
Go(r, p) ==
    /\ pc' = [pc EXCEPT ![r] = p]
    /\ trace' = [trace EXCEPT ![r] =
                    IF RelayState(p) = Last(@) THEN @ ELSE Append(@, RelayState(p))]

-----------------------------------------------------------------------------
(* src/backend/main.py: request model *)

\* variant: llm_provider declared as a plain str
GenerateRequest_AnyProvider(input) ==
    input.llm_provider = input.llm_provider

\* pydantic validation of the request body: the typed fields are present in
\* every input of the model, so the Literal of llm_provider is what decides
GenerateRequest(input) ==
    input.llm_provider \in {"claude", "openai", "gemini"}

-----------------------------------------------------------------------------
(* src/backend/llm_abstraction.py *)

\* variant: every branch reads the key of the first branch
get_llm_OneKey(provider, model_name, temperature, max_tokens) ==
    IF provider \in {"claude", "openai", "gemini"} THEN
        IF "ANTHROPIC_API_KEY" \notin env
        THEN [ok |-> FALSE, error |-> "ANTHROPIC_API_KEY environment variable not set."]
        ELSE [ok |-> TRUE, error |-> ""]
    ELSE [ok |-> FALSE, error |-> "Unsupported LLM provider"]

get_llm(provider, model_name, temperature, max_tokens) ==
    IF provider = "claude" THEN
        IF "ANTHROPIC_API_KEY" \notin env
        THEN [ok |-> FALSE, error |-> "ANTHROPIC_API_KEY environment variable not set."]
        ELSE [ok |-> TRUE, error |-> ""]
    ELSE IF provider = "openai" THEN
        IF "OPENAI_API_KEY" \notin env
        THEN [ok |-> FALSE, error |-> "OPENAI_API_KEY environment variable not set."]
        ELSE [ok |-> TRUE, error |-> ""]
    ELSE IF provider = "gemini" THEN
        IF "GOOGLE_API_KEY" \notin env
        THEN [ok |-> FALSE, error |-> "GOOGLE_API_KEY environment variable not set."]
        ELSE [ok |-> TRUE, error |-> ""]
    ELSE [ok |-> FALSE, error |-> "Unsupported LLM provider"]

-----------------------------------------------------------------------------
(* src/backend/crud.py, src/backend/database.py: chat history *)

ChatMessageCreate(session_id, role, message, llm_provider, llm_model) ==
    [session_id |-> session_id, role |-> role, message |-> message,
     llm_provider |-> llm_provider, llm_model |-> llm_model]

\* a row of table chat_history: id is the autoincrement primary key,
\* timestamp the column default func.now() taken at the INSERT
ChatHistory(id, now, message) ==
    [id |-> id, timestamp |-> now, session_id |-> message.session_id,
     role |-> message.role, message |-> message.message,
     llm_provider |-> message.llm_provider, llm_model |-> message.llm_model]

\* db.add, db.commit, db.refresh: the table after the insert
create_chat_message(table, message, now) ==
    Append(table, ChatHistory(Len(table) + 1, now, message))

\* default of the limit parameter of get_chat_history
DefaultLimit == 100

\* variant: the query without its filter on session_id
get_chat_history_NoFilter(session_id, skip, limit) ==
    LET n == Len(chat_history)
    IN  {[j \in 1..(Min(n, skip + limit) - Min(n, skip)) |-> chat_history[j + Min(n, skip)]]}

\* variant: the query without its ORDER BY, rows of the session in any order
get_chat_history_Unordered(session_id, skip, limit) ==
    LET ids == {i \in DOMAIN chat_history : chat_history[i].session_id = session_id}
        n == Cardinality(ids)
        orders == {f \in [1..n -> ids] : \A j, k \in 1..n : j # k => f[j] # f[k]}
    IN  {[j \in 1..(Min(n, skip + limit) - Min(n, skip)) |-> chat_history[f[j + Min(n, skip)]]] :
            f \in orders}

\* ORDER BY timestamp over the rows numbered ids: the orders in which the
\* rows may come at places lo..hi.  The row at place j has fewer than j
\* rows with a smaller timestamp (before) and at least j rows with a
\* timestamp not greater than its own (upto); rows with the same timestamp
\* may come in any order.
RECURSIVE order_by(_, _, _, _, _)
order_by(ids, before, upto, lo, hi) ==
    IF lo > hi THEN {<<>>}
    ELSE IF lo = hi
    THEN {<<i>> : i \in {k \in ids : before[k] < lo /\ lo <= upto[k]}}
    ELSE LET mid == (lo + hi) \div 2
             first == order_by(ids, before, upto, lo, mid)
             second == order_by(ids, before, upto, mid + 1, hi)
         IN  {p[1] \o p[2] :
                 p \in {q \in first \X second : Range(q[1]) \cap Range(q[2]) = {}}}

\* filter(session_id == ...).order_by(timestamp).offset(skip).limit(limit):
\* the set of answers the query may give.  ORDER BY timestamp fixes the
\* order of rows with different timestamps only; rows with the same
\* timestamp come in an order the query does not determine.
get_chat_history(session_id, skip, limit) ==
    LET ids == {i \in DOMAIN chat_history : chat_history[i].session_id = session_id}
        n == Cardinality(ids)
        before == [i \in ids |-> Cardinality({k \in ids :
                      chat_history[k].timestamp < chat_history[i].timestamp})]
        upto == [i \in ids |-> Cardinality({k \in ids :
                      chat_history[k].timestamp <= chat_history[i].timestamp})]
        orders == order_by(ids, before, upto, 1, Min(n, skip + limit))
    IN  {[j \in 1..(Min(n, skip + limit) - Min(n, skip)) |-> chat_history[f[j + Min(n, skip)]]] :
            f \in orders}

-----------------------------------------------------------------------------
(* Initial state: the process has started, no request has arrived *)

\* the answer of a listing is looked at in the state that produced it: the
\* backend takes its next step once the answer has been returned
NoAnswerPending ==
    /\ response = NoResponse
    /\ UNCHANGED response

\* no request of /generate_stream has arrived and the executor is idle
CoroutinesIdle ==
    /\ req = [r \in Reqs |-> NoRequest]
    /\ pc = [r \in Reqs |-> "idle"]
    /\ status = [r \in Reqs |-> 0]
    /\ detail = [r \in Reqs |-> ""]
    /\ body = [r \in Reqs |-> "none"]
    /\ relayed = [r \in Reqs |-> <<>>]
    /\ chunk = [r \in Reqs |-> ""]
    /\ full = [r \in Reqs |-> ""]
    /\ pulled = [r \in Reqs |-> <<>>]
    /\ exhausted = [r \in Reqs |-> FALSE]
    /\ cause = [r \in Reqs |-> "none"]
    /\ discAt = [r \in Reqs |-> "none"]
    /\ trace = [r \in Reqs |-> <<"Idle">>]
    /\ queue = <<>>
    /\ running = NoJob
    /\ response = NoResponse

\* no request has arrived and the chat history table is empty
RelayIdle ==
    /\ CoroutinesIdle
    /\ chat_history = <<>>
    /\ owner = <<>>
    /\ clock = 0

\* no caller has sent anything to the other store endpoints
GatewayIdle ==
    /\ call = [c \in Callers |-> NoCall]
    /\ at = [c \in Callers |-> "idle"]
    /\ result = [c \in Callers |-> NoResult]
    /\ answer = [c \in Callers |-> NoAnswer]
    /\ work_queue = <<>>
    /\ threads = {}

\* no chat page is open
PageIdle ==
    /\ page = ""
    /\ messages = <<>>
    /\ current_response = ""
    /\ ppc = "idle"
    /\ chat_session_id = ""
    /\ message_placeholder = [text |-> "", cursor |-> FALSE]
    /\ turns = <<>>

\* no function of the frontend is being called
ClientIdle ==
    /\ fn = ""
    /\ http = NoExchange
    /\ cpc = "idle"
    /\ yielded = <<>>
    /\ outcome = NoOutcome

Init ==
    /\ env \in Envs
    /\ RelayIdle
    /\ GatewayIdle
    /\ notes = <<>>
    /\ ClientIdle
    /\ PageIdle

-----------------------------------------------------------------------------
(* The executor: ThreadPoolExecutor(max_workers=1) *)

\* loop.run_in_executor(executor, create_chat_message, db, message)
run_in_executor(r, message) ==
    queue' = Append(queue, [req |-> r, message |-> message])

\* the worker thread takes the oldest work item
ExecutorStart ==
    /\ NoAnswerPending
    /\ RelayStep
    /\ running = NoJob
    /\ queue # <<>>
    /\ running' = Head(queue)
    /\ queue' = Tail(queue)
    /\ UNCHANGED <<env, relayVars, chat_history, owner, clock>>

\* the worker thread runs create_chat_message to its commit and sets the
\* future's result; the coroutine awaiting it becomes runnable
ExecutorRun ==
    /\ NoAnswerPending
    /\ RelayStep
    /\ running # NoJob
    /\ \E now \in {clock, clock + 1} :
          /\ chat_history = <<>> => now = clock
          /\ clock' = now
          /\ chat_history' = create_chat_message(chat_history, running.message, now)
    /\ owner' = Append(owner, running.req)
    /\ running' = NoJob
    /\ \/ /\ running.message.role = "user"
          /\ Go(running.req, "user_persisted")
       \/ /\ running.message.role = "assistant"
          /\ body[running.req] = "open"
          /\ Go(running.req, "asst_persisted")
       \/ /\ running.message.role = "assistant"
          /\ body[running.req] = "aborted"
          /\ Go(running.req, "completed")
    /\ UNCHANGED <<env, req, status, detail, body, relayed, chunk, full, pulled,
                   exhausted, cause, discAt, queue>>

-----------------------------------------------------------------------------
(* POST /generate_stream *)

\* a request body arrives
Receive(r, input) ==
    /\ NoAnswerPending
    /\ RelayStep
    /\ pc[r] = "idle"
    /\ r = "r2" => pc["r1"] # "idle"
    /\ req' = [req EXCEPT ![r] = input]
    /\ Go(r, "validating")
    /\ UNCHANGED <<env, status, detail, body, relayed, chunk, full, pulled,
                   exhausted, cause, discAt, queue, running, chat_history,
                   owner, clock>>

\* variant: the write of the user message is submitted but not awaited
generate_stream_NoAwait(r) ==
    /\ NoAnswerPending
    /\ RelayStep
    /\ pc[r] = "validating"
    /\ GenerateRequest(req[r])
    /\ run_in_executor(r, ChatMessageCreate(req[r].session_id, "user",
                           req[r].question, req[r].llm_provider, req[r].llm_model))
    /\ Go(r, "user_persisted")
    /\ UNCHANGED <<env, req, status, detail, cause, body, relayed, chunk, full,
                   pulled, exhausted, discAt, running, chat_history, owner, clock>>

\* variant: the credential is looked up before anything is written, and a
\* request whose credential is absent is refused with nothing stored
generate_stream_ConfigFirst(r) ==
    /\ NoAnswerPending
    /\ RelayStep
    /\ pc[r] = "validating"
    /\ \/ /\ ~GenerateRequest(req[r])
          /\ status' = [status EXCEPT ![r] = 422]
          /\ detail' = [detail EXCEPT ![r] = "Input should be 'claude', 'openai' or 'gemini'"]
          /\ cause' = [cause EXCEPT ![r] = "validation"]
          /\ Go(r, "rejected")
          /\ UNCHANGED queue
       \/ /\ GenerateRequest(req[r])
          /\ ~get_llm(req[r].llm_provider, req[r].llm_model,
                      req[r].temperature, req[r].max_tokens).ok
          /\ status' = [status EXCEPT ![r] = 400]
          /\ detail' = [detail EXCEPT ![r] =
                get_llm(req[r].llm_provider, req[r].llm_model,
                        req[r].temperature, req[r].max_tokens).error]
          /\ cause' = [cause EXCEPT ![r] = "config"]
          /\ Go(r, "failed")
          /\ UNCHANGED queue
       \/ /\ GenerateRequest(req[r])
          /\ get_llm(req[r].llm_provider, req[r].llm_model,
                     req[r].temperature, req[r].max_tokens).ok
          /\ run_in_executor(r, ChatMessageCreate(req[r].session_id, "user",
                                 req[r].question, req[r].llm_provider, req[r].llm_model))
          /\ Go(r, "await_user_write")
          /\ UNCHANGED <<status, detail, cause>>
    /\ UNCHANGED <<env, req, body, relayed, chunk, full, pulled, exhausted,
                   discAt, running, chat_history, owner, clock>>

\* the body is validated against GenerateRequest; generate_stream then runs
\* to its first await, the write of the user message (main.py 64-74)
generate_stream(r) ==
    /\ NoAnswerPending
    /\ RelayStep
    /\ pc[r] = "validating"
    /\ \/ /\ ~GenerateRequest(req[r])
          /\ status' = [status EXCEPT ![r] = 422]
          /\ detail' = [detail EXCEPT ![r] = "Input should be 'claude', 'openai' or 'gemini'"]
          /\ cause' = [cause EXCEPT ![r] = "validation"]
          /\ Go(r, "rejected")
          /\ UNCHANGED queue
       \/ /\ GenerateRequest(req[r])
          /\ run_in_executor(r, ChatMessageCreate(req[r].session_id, "user",
                                 req[r].question, req[r].llm_provider, req[r].llm_model))
          /\ Go(r, "await_user_write")
          /\ UNCHANGED <<status, detail, cause>>
    /\ UNCHANGED <<env, req, body, relayed, chunk, full, pulled, exhausted,
                   discAt, running, chat_history, owner, clock>>

\* after the user message is written: get_llm, get_llm_chain, and the
\* StreamingResponse is returned and started (main.py 76-91, 113-117)
generate_stream_llm(r) ==
    /\ NoAnswerPending
    /\ RelayStep
    /\ pc[r] = "user_persisted"
    /\ LET llm == get_llm(req[r].llm_provider, req[r].llm_model,
                          req[r].temperature, req[r].max_tokens)
       IN  \/ /\ ~llm.ok
              /\ status' = [status EXCEPT ![r] = 400]
              /\ detail' = [detail EXCEPT ![r] = llm.error]
              /\ cause' = [cause EXCEPT ![r] = "config"]
              /\ Go(r, "failed")
              /\ UNCHANGED <<body, full>>
           \/ /\ llm.ok
              /\ full' = [full EXCEPT ![r] = ""]
              /\ status' = [status EXCEPT ![r] = 200]
              /\ body' = [body EXCEPT ![r] = "open"]
              /\ Go(r, "pull")
              /\ UNCHANGED <<detail, cause>>
    /\ UNCHANGED <<env, req, relayed, chunk, pulled, exhausted, discAt, queue,
                   running, chat_history, owner, clock>>

-----------------------------------------------------------------------------
(* generate_response_chunks, the body iterator of the StreamingResponse *)

\* variant: the chunk is put in front of assistant_response_full
PullFragment_Prepend(r, c) ==
    /\ NoAnswerPending
    /\ RelayStep
    /\ pc[r] = "pull"
    /\ Len(pulled[r]) < MaxFrags
    /\ c = Stream[r][Len(pulled[r]) + 1]
    /\ pulled' = [pulled EXCEPT ![r] = Append(@, c)]
    /\ full' = [full EXCEPT ![r] = c \o @]
    /\ chunk' = [chunk EXCEPT ![r] = c]
    /\ Go(r, "send")
    /\ UNCHANGED <<env, req, status, detail, body, relayed, exhausted, cause,
                   discAt, queue, running, chat_history, owner, clock>>

\* variant: assistant_response_full is one module-level variable that every
\* request appends to
PullFragment_SharedBuffer(r, c) ==
    /\ NoAnswerPending
    /\ RelayStep
    /\ pc[r] = "pull"
    /\ Len(pulled[r]) < MaxFrags
    /\ c = Stream[r][Len(pulled[r]) + 1]
    /\ pulled' = [pulled EXCEPT ![r] = Append(@, c)]
    /\ full' = [q \in Reqs |-> full[q] \o c]
    /\ chunk' = [chunk EXCEPT ![r] = c]
    /\ Go(r, "send")
    /\ UNCHANGED <<env, req, status, detail, body, relayed, exhausted, cause,
                   discAt, queue, running, chat_history, owner, clock>>

\* chain.astream yields a chunk: assistant_response_full += chunk, and the
\* generator suspends at `yield chunk` (main.py 97-99)
PullFragment(r, c) ==
    /\ NoAnswerPending
    /\ RelayStep
    /\ pc[r] = "pull"
    /\ Len(pulled[r]) < MaxFrags
    /\ c = Stream[r][Len(pulled[r]) + 1]
    /\ pulled' = [pulled EXCEPT ![r] = Append(@, c)]
    /\ full' = [full EXCEPT ![r] = @ \o c]
    /\ chunk' = [chunk EXCEPT ![r] = c]
    /\ Go(r, "send")
    /\ UNCHANGED <<env, req, status, detail, body, relayed, exhausted, cause,
                   discAt, queue, running, chat_history, owner, clock>>

\* the yielded chunk is sent to the caller and the generator is resumed
YieldChunk(r) ==
    /\ NoAnswerPending
    /\ RelayStep
    /\ pc[r] = "send"
    /\ relayed' = [relayed EXCEPT ![r] = Append(@, chunk[r])]
    /\ chunk' = [chunk EXCEPT ![r] = ""]
    /\ Go(r, "pull")
    /\ UNCHANGED <<env, req, status, detail, body, full, pulled, exhausted,
                   cause, discAt, queue, running, chat_history, owner, clock>>

\* variant: the assistant write sits in a finally block and runs on an error
PullError_PersistPartial(r) ==
    /\ NoAnswerPending
    /\ RelayStep
    /\ pc[r] = "pull"
    /\ cause' = [cause EXCEPT ![r] = "upstream"]
    /\ body' = [body EXCEPT ![r] = "aborted"]
    /\ run_in_executor(r, ChatMessageCreate(req[r].session_id, "assistant",
                           full[r], req[r].llm_provider, req[r].llm_model))
    /\ Go(r, "failed")
    /\ UNCHANGED <<env, req, status, detail, relayed, chunk, full, pulled,
                   exhausted, discAt, running, chat_history, owner, clock>>

\* chain.astream raises: the exception leaves the generator, nothing after
\* the loop runs, and the server aborts the response that has already started
PullError(r) ==
    /\ NoAnswerPending
    /\ RelayStep
    /\ pc[r] = "pull"
    /\ cause' = [cause EXCEPT ![r] = "upstream"]
    /\ body' = [body EXCEPT ![r] = "aborted"]
    /\ Go(r, "failed")
    /\ UNCHANGED <<env, req, status, detail, relayed, chunk, full, pulled,
                   exhausted, discAt, queue, running, chat_history, owner, clock>>

\* chain.astream is exhausted: the assistant message is built from
\* assistant_response_full and its write is awaited (main.py 101-109)
PullEnd(r) ==
    /\ NoAnswerPending
    /\ RelayStep
    /\ pc[r] = "pull"
    /\ exhausted' = [exhausted EXCEPT ![r] = TRUE]
    /\ run_in_executor(r, ChatMessageCreate(req[r].session_id, "assistant",
                           full[r], req[r].llm_provider, req[r].llm_model))
    /\ Go(r, "await_asst_write")
    /\ UNCHANGED <<env, req, status, detail, body, relayed, chunk, full, pulled,
                   cause, discAt, running, chat_history, owner, clock>>

\* variant: the generator stays suspended at its last await when the
\* assistant write has returned
StreamClosed_Stuck(r) ==
    /\ NoAnswerPending
    /\ RelayStep
    /\ pc[r] = "asst_persisted"
    /\ body' = [body EXCEPT ![r] = "closed"]
    /\ UNCHANGED <<env, req, pc, trace, status, detail, relayed, chunk, full,
                   pulled, exhausted, cause, discAt, queue, running,
                   chat_history, owner, clock>>

\* the await of the assistant write returns, the generator ends and the
\* response body is closed
StreamClosed(r) ==
    /\ NoAnswerPending
    /\ RelayStep
    /\ pc[r] = "asst_persisted"
    /\ body' = [body EXCEPT ![r] = "closed"]
    /\ Go(r, "completed")
    /\ UNCHANGED <<env, req, status, detail, relayed, chunk, full, pulled,
                   exhausted, cause, discAt, queue, running, chat_history,
                   owner, clock>>

\* variant: the generator is shielded from the cancellation and runs on
Disconnect_NotCancelled(r) ==
    /\ NoAnswerPending
    /\ RelayStep
    /\ body[r] = "open"
    /\ pc[r] \in {"pull", "send", "await_asst_write"}
    /\ body' = [body EXCEPT ![r] = "aborted"]
    /\ discAt' = [discAt EXCEPT ![r] = pc[r]]
    /\ UNCHANGED <<env, req, pc, trace, status, detail, cause, relayed, chunk,
                   full, pulled, exhausted, queue, running, chat_history,
                   owner, clock>>

\* the caller disconnects while the response is open: the task iterating
\* the generator is cancelled at the await it is suspended in.  A work item
\* still queued is cancelled with it and never runs; one the worker is
\* already running cannot be cancelled and runs to its commit.
Disconnect(r) ==
    /\ NoAnswerPending
    /\ RelayStep
    /\ body[r] = "open"
    /\ body' = [body EXCEPT ![r] = "aborted"]
    /\ discAt' = [discAt EXCEPT ![r] = pc[r]]
    /\ \/ /\ pc[r] \in {"pull", "send"}
          /\ cause' = [cause EXCEPT ![r] = "disconnect"]
          /\ Go(r, "failed")
          /\ UNCHANGED queue
       \/ /\ pc[r] = "await_asst_write"
          /\ running.req # r
          /\ queue' = SelectSeq(queue, LAMBDA j : j.req # r)
          /\ cause' = [cause EXCEPT ![r] = "disconnect"]
          /\ Go(r, "failed")
       \/ /\ pc[r] = "await_asst_write"
          /\ running.req = r
          /\ UNCHANGED <<queue, cause, pc, trace>>
       \/ /\ pc[r] = "asst_persisted"
          /\ Go(r, "completed")
          /\ UNCHANGED <<queue, cause>>
    /\ UNCHANGED <<env, req, status, detail, relayed, chunk, full, pulled,
                   exhausted, running, chat_history, owner, clock>>

-----------------------------------------------------------------------------
(* GET /chat_history/{session_id} *)

\* get_chat_history runs on the executor's worker with the default skip and
\* limit, and its result is the response
get_session_chat_history(session_id) ==
    /\ response = NoResponse
    /\ RelayStep
    /\ running = NoJob
    /\ \E rows \in get_chat_history(session_id, 0, DefaultLimit) :
          response' = [session_id |-> session_id, rows |-> rows, status |-> 200]
    /\ UNCHANGED <<env, relayVars, queue, running, chat_history, owner, clock>>

\* the answer has been returned to the caller
ResponseReturned ==
    /\ response # NoResponse
    /\ RelayStep
    /\ response' = NoResponse
    /\ UNCHANGED <<env, relayVars, queue, running, chat_history, owner, clock>>

-----------------------------------------------------------------------------

Next ==
    \/ \E r \in Reqs, input \in RequestInputs : Receive(r, input)
    \/ \E r \in Reqs : generate_stream(r)
    \/ \E r \in Reqs : generate_stream_llm(r)
    \/ \E r \in Reqs : \E c \in Range(Stream[r]) : PullFragment(r, c)
    \/ \E r \in Reqs : YieldChunk(r)
    \/ \E r \in Reqs : PullError(r)
    \/ \E r \in Reqs : PullEnd(r)
    \/ \E r \in Reqs : StreamClosed(r)
    \/ \E r \in Reqs : Disconnect(r)
    \/ ExecutorStart
    \/ ExecutorRun
    \/ \E s \in Sessions \cup {UnknownSession} : get_session_chat_history(s)
    \/ ResponseReturned

Spec == Init /\ [][Next]_vars

-----------------------------------------------------------------------------
(* /generate_stream with a store that may fail, and with progress *)

\* variant: the endpoint swallows the exception of the user write and goes
\* on to get_llm
ExecutorRaise_Swallowed ==
    /\ NoAnswerPending
    /\ RelayStep
    /\ running # NoJob
    /\ running' = NoJob
    /\ \/ /\ running.message.role = "user"
          /\ Go(running.req, "user_persisted")
          /\ UNCHANGED <<status, detail, body, cause>>
       \/ /\ running.message.role = "assistant"
          /\ body' = [body EXCEPT ![running.req] = "aborted"]
          /\ cause' = [cause EXCEPT ![running.req] = "store"]
          /\ Go(running.req, "failed")
          /\ UNCHANGED <<status, detail>>
    /\ UNCHANGED <<env, req, relayed, chunk, full, pulled, exhausted, discAt,
                   queue, chat_history, owner, clock>>

\* the store is unavailable: create_chat_message raises in the worker
\* thread (db.commit(), crud.py 48-54) and no row is written; the await on
\* the executor raises the exception in the coroutine.  For the user write
\* that is inside the try of generate_stream, whose `except Exception`
\* answers 500 (main.py 118-121); for the assistant write it is inside the
\* generator, after the response has started, and the response breaks off.
ExecutorRaise ==
    /\ NoAnswerPending
    /\ RelayStep
    /\ running # NoJob
    /\ running' = NoJob
    /\ \/ /\ running.message.role = "user"
          /\ status' = [status EXCEPT ![running.req] = 500]
          /\ detail' = [detail EXCEPT ![running.req] =
                           "Internal server error: unable to open database file"]
          /\ UNCHANGED body
       \/ /\ running.message.role = "assistant"
          /\ body' = [body EXCEPT ![running.req] = "aborted"]
          /\ UNCHANGED <<status, detail>>
    /\ cause' = [cause EXCEPT ![running.req] = "store"]
    /\ Go(running.req, "failed")
    /\ UNCHANGED <<env, req, relayed, chunk, full, pulled, exhausted, discAt,
                   queue, chat_history, owner, clock>>

\* the provider answers a pull: with a fragment, an error or the end
Provider(r) ==
    \/ \E c \in Range(Stream[r]) : PullFragment(r, c)
    \/ PullError(r)
    \/ PullEnd(r)

\* the worker thread takes up and finishes every work item
Worker == ExecutorStart \/ ExecutorRun \/ ExecutorRaise

NextLive ==
    \/ \E r \in Reqs, input \in RequestInputs : Receive(r, input)
    \/ \E r \in Reqs : generate_stream(r)
    \/ \E r \in Reqs : generate_stream_llm(r)
    \/ \E r \in Reqs : \E c \in Range(Stream[r]) : PullFragment(r, c)
    \/ \E r \in Reqs : YieldChunk(r)
    \/ \E r \in Reqs : PullError(r)
    \/ \E r \in Reqs : PullEnd(r)
    \/ \E r \in Reqs : StreamClosed(r)
    \/ \E r \in Reqs : Disconnect(r)
    \/ ExecutorStart
    \/ ExecutorRun
    \/ ExecutorRaise

\* the event loop runs every coroutine that can run, the worker thread
\* works off its queue and the provider answers every pull; when requests
\* arrive and whether a caller disconnects is left open
Progress ==
    /\ WF_vars(Worker)
    /\ \A r \in Reqs :
          /\ WF_vars(generate_stream(r))
          /\ WF_vars(generate_stream_llm(r))
          /\ WF_vars(Provider(r))
          /\ WF_vars(YieldChunk(r))
          /\ WF_vars(StreamClosed(r))

SpecLive == Init /\ [][NextLive]_vars /\ Progress

-----------------------------------------------------------------------------
(* /generate_stream and the listing in a session with a long history *)

\* a row written before the backend started: row i of a session in which
\* questions and answers alternate, each written in a second of its own
StoredMessage(i) ==
    ChatHistory(i, i, ChatMessageCreate("s1", IF i % 2 = 1 THEN "user" ELSE "assistant",
                                        "earlier", "claude", "claude-3-haiku-20240307"))

\* the database file outlives the process: table chat_history at the start
\* of the backend, holding a session that is at the limit of the listing or
\* just under it
LongHistories ==
    {[i \in 1..n |-> StoredMessage(i)] : n \in (DefaultLimit - 2)..DefaultLimit}

\* the request the model follows in that session
TheRequest == "r1"

InitHistory ==
    /\ env = {"ANTHROPIC_API_KEY"}
    /\ CoroutinesIdle
    /\ chat_history \in LongHistories
    /\ owner = [i \in DOMAIN chat_history |-> "earlier"]
    /\ clock = Len(chat_history)
    /\ GatewayIdle
    /\ notes = <<>>
    /\ ClientIdle
    /\ PageIdle

NextHistory ==
    \/ \E input \in RequestInputs : Receive(TheRequest, input)
    \/ generate_stream(TheRequest)
    \/ generate_stream_llm(TheRequest)
    \/ \E c \in Range(Stream[TheRequest]) : PullFragment(TheRequest, c)
    \/ YieldChunk(TheRequest)
    \/ PullError(TheRequest)
    \/ PullEnd(TheRequest)
    \/ StreamClosed(TheRequest)
    \/ Disconnect(TheRequest)
    \/ ExecutorStart
    \/ ExecutorRun
    \/ \E s \in Sessions \cup {UnknownSession} : get_session_chat_history(s)
    \/ ResponseReturned

SpecHistory == InitHistory /\ [][NextHistory]_vars

-----------------------------------------------------------------------------
(* src/backend/crud.py, src/backend/database.py: notes *)

\* the value of a column that was given none
NULL == "NULL"

\* columns of table notes that are declared nullable=False
NotNullColumns == {"title", "url", "content", "comments", "tags"}

\* Note(**note.dict()): the request body gives title and content; id and
\* timestamp are filled by the INSERT, no other column has a default
Note(id, now, note) ==
    [id |-> id, timestamp |-> now, title |-> note.title, url |-> NULL,
     content |-> note.content, comments |-> NULL, tags |-> NULL]

\* the database refuses a row that has NULL in a NOT NULL column
IntegrityError(row) == \E col \in NotNullColumns : row[col] = NULL

\* a row of table notes written with all its columns
StoredNote(id, now, title) ==
    [id |-> id, timestamp |-> now, title |-> title, url |-> "https://example.org",
     content |-> "text of " \o title, comments |-> "", tags |-> "todo"]

\* the database file outlives the process: what table notes may hold when
\* the backend starts (equal timestamps, and ids that do not follow them)
NoteSeeds ==
    { <<StoredNote(1, 1, "A"), StoredNote(2, 2, "B")>>,
      <<StoredNote(1, 1, "A"), StoredNote(2, 1, "B")>>,
      <<StoredNote(1, 2, "A"), StoredNote(2, 1, "B"), StoredNote(3, 2, "C")>> }

\* the integer primary key of the next row
NextRowId(table) ==
    IF table = <<>> THEN 1
    ELSE 1 + CHOOSE m \in {table[i].id : i \in DOMAIN table} :
                 \A i \in DOMAIN table : table[i].id <= m

\* db.add, db.commit, db.refresh: the table after the call, the note
\* returned (a sequence of one row; <<>> is None) and the exception raised
create_note(table, note, now) ==
    LET db_note == Note(NextRowId(table), now, note)
    IN  IF IntegrityError(db_note)
        THEN [table |-> table, value |-> <<>>, raised |-> "IntegrityError"]
        ELSE [table |-> Append(table, db_note), value |-> <<db_note>>, raised |-> ""]

\* filter(Note.id == note_id).first()
get_note(table, note_id) ==
    LET found == SelectSeq(table, LAMBDA n : n.id = note_id)
    IN  IF found = <<>> THEN <<>> ELSE <<Head(found)>>

\* variant: the query ordered by timestamp ascending
get_notes_Ascending(table, skip, limit) ==
    LET n == Len(table)
        orders == {f \in [1..n -> 1..n] :
                     /\ \A j, k \in 1..n : j # k => f[j] # f[k]
                     /\ \A j, k \in 1..n : j < k =>
                           table[f[j]].timestamp <= table[f[k]].timestamp}
    IN  {[j \in 1..(Min(n, skip + limit) - Min(n, skip)) |-> table[f[j + Min(n, skip)]]] :
            f \in orders}

\* order_by(Note.timestamp.desc()).offset(skip).limit(limit): the set of
\* answers the query may give, rows with equal timestamps in any order
get_notes(table, skip, limit) ==
    LET n == Len(table)
        orders == {f \in [1..n -> 1..n] :
                     /\ \A j, k \in 1..n : j # k => f[j] # f[k]
                     /\ \A j, k \in 1..n : j < k =>
                           table[f[j]].timestamp >= table[f[k]].timestamp}
    IN  {[j \in 1..(Min(n, skip + limit) - Min(n, skip)) |-> table[f[j + Min(n, skip)]]] :
            f \in orders}

\* variant: the update writes a new row when the id is not stored, and
\* stamps the row it writes with the time of the update
update_note_Upsert(table, note_id, note) ==
    LET found == get_note(table, note_id)
        db_note == [StoredNote(note_id, 3, note.title) EXCEPT !.content = note.content]
    IN  [table |-> IF found = <<>> THEN Append(table, db_note)
                   ELSE [i \in DOMAIN table |->
                           IF table[i].id = note_id THEN db_note ELSE table[i]],
         value |-> <<db_note>>, raised |-> ""]

\* setattr for title and content on the row found, db.commit, db.refresh
update_note(table, note_id, note) ==
    LET found == get_note(table, note_id)
    IN  IF found = <<>>
        THEN [table |-> table, value |-> <<>>, raised |-> ""]
        ELSE LET db_note == [Head(found) EXCEPT !.title = note.title,
                                                !.content = note.content]
             IN  [table |-> [i \in DOMAIN table |->
                               IF table[i].id = note_id THEN db_note ELSE table[i]],
                  value |-> <<db_note>>, raised |-> ""]

\* variant: the row is marked for deletion but the delete is never committed
delete_note_NoCommit(table, note_id) ==
    [table |-> table, value |-> get_note(table, note_id), raised |-> ""]

\* db.delete on the row found, db.commit; the row is returned as it was
delete_note(table, note_id) ==
    LET found == get_note(table, note_id)
    IN  IF found = <<>>
        THEN [table |-> table, value |-> <<>>, raised |-> ""]
        ELSE [table |-> SelectSeq(table, LAMBDA n : n.id # note_id),
              value |-> found, raised |-> ""]

\* response_model=NoteResponse: the fields of a note that are sent
NoteResponse(row) ==
    [id |-> row.id, timestamp |-> row.timestamp, title |-> row.title,
     content |-> row.content]

-----------------------------------------------------------------------------
(* src/backend/main.py: the notes endpoints and POST /chat_history/ *)

\* threads of the pool that serves every database call
max_workers == 1

\* at most this many chat messages are appended through POST /chat_history/
MaxRows == 1

HTTPException(status_code, detail_text) ==
    [status |-> status_code, body |-> <<>>, detail |-> detail_text]

\* the endpoint returned: 200 with the serialised value
Returned(rows) == [status |-> 200, body |-> rows, detail |-> ""]

\* an exception no handler is registered for leaves the endpoint
InternalServerError == [status |-> 500, body |-> <<>>, detail |-> "Internal Server Error"]

WriteOps == {"create_new_note", "update_existing_note", "delete_existing_note",
             "create_new_chat_message"}

NoteCall(op, note_id, note) ==
    [op |-> op, note_id |-> note_id, note |-> note, session_id |-> ""]

\* the requests a caller may send
Calls ==
    {NoteCall("create_new_note", 0, n) : n \in NoteInputs}
    \cup {NoteCall("read_notes", 0, NoNote)}
    \cup {NoteCall("read_note", i, NoNote) : i \in NoteIds}
    \cup {NoteCall("update_existing_note", i, n) : i \in NoteIds, n \in NoteInputs}
    \cup {NoteCall("delete_existing_note", i, NoNote) : i \in NoteIds}
    \cup {[op |-> "create_new_chat_message", note_id |-> 0, note |-> NoNote,
           session_id |-> "s1"]}

\* the part of each endpoint after its await: from what the crud function
\* returned to the response
read_notes(value) == Returned([i \in DOMAIN value |-> NoteResponse(value[i])])

read_note(value) ==
    IF value = <<>> THEN HTTPException(404, "Note not found")
    ELSE Returned(<<NoteResponse(Head(value))>>)

create_new_note(value) == Returned(<<NoteResponse(Head(value))>>)

update_existing_note(value) ==
    IF value = <<>> THEN HTTPException(404, "Note not found")
    ELSE Returned(<<NoteResponse(Head(value))>>)

\* variant: the endpoint answers 200 with an empty body for an unknown id
delete_existing_note_NoCheck(value) ==
    Returned([i \in DOMAIN value |-> NoteResponse(value[i])])

delete_existing_note(value) ==
    IF value = <<>> THEN HTTPException(404, "Note not found")
    ELSE Returned(<<NoteResponse(Head(value))>>)

create_new_chat_message(value) == Returned(value)

\* the event loop runs one coroutine at a time: an endpoint that was resumed
\* runs to its response, and the answer is looked at in the state that
\* produced it
NoAnswerUnread == \A c \in Callers : at[c] \notin {"returned", "answered"}

\* chat messages whose append has been asked for and is not yet stored
AppendsUnderWay ==
    {c \in Callers : /\ call[c].op = "create_new_chat_message"
                     /\ at[c] \in {"queued", "running"}}

\* a step of these endpoints touches nothing of /generate_stream
GatewayStep ==
    UNCHANGED <<env, relayVars, queue, running, owner, response, clientVars,
                pageVars>>

\* a request arrives; the endpoint runs to its await of
\* loop.run_in_executor(executor, <crud function>, db, ...)
Request(c, k) ==
    /\ NoAnswerUnread
    /\ GatewayStep
    /\ at[c] = "idle"
    /\ c = "b" => at["a"] # "idle"
    /\ k.op = "create_new_chat_message" =>
          Len(chat_history) + Cardinality(AppendsUnderWay) < MaxRows
    /\ call' = [call EXCEPT ![c] = k]
    /\ at' = [at EXCEPT ![c] = "queued"]
    /\ work_queue' = Append(work_queue, c)
    /\ UNCHANGED <<notes, chat_history, clock, result, answer, threads>>

\* variant: a pool that starts a thread for every work item
WorkerStart_Unbounded ==
    /\ NoAnswerUnread
    /\ GatewayStep
    /\ work_queue # <<>>
    /\ threads' = threads \cup {Head(work_queue)}
    /\ at' = [at EXCEPT ![Head(work_queue)] = "running"]
    /\ work_queue' = Tail(work_queue)
    /\ UNCHANGED <<notes, chat_history, clock, call, result, answer>>

\* a thread of the pool takes the oldest work item; the pool has at most
\* max_workers threads
WorkerStart ==
    /\ NoAnswerUnread
    /\ GatewayStep
    /\ Cardinality(threads) < max_workers
    /\ work_queue # <<>>
    /\ threads' = threads \cup {Head(work_queue)}
    /\ at' = [at EXCEPT ![Head(work_queue)] = "running"]
    /\ work_queue' = Tail(work_queue)
    /\ UNCHANGED <<notes, chat_history, clock, call, result, answer>>

\* the thread runs the crud function to its end and sets the future
WorkerRun(c) ==
    /\ NoAnswerUnread
    /\ GatewayStep
    /\ c \in threads
    /\ threads' = threads \ {c}
    /\ at' = [at EXCEPT ![c] = "returned"]
    /\ LET k == call[c]
           Set(r) == /\ notes' = r.table
                     /\ result' = [result EXCEPT ![c] =
                                      [value |-> r.value, raised |-> r.raised]]
                     /\ UNCHANGED <<chat_history, clock>>
       IN  \/ /\ k.op = "create_new_note"
              /\ Set(create_note(notes, k.note, clock))
           \/ /\ k.op = "read_notes"
              /\ \E rows \in get_notes(notes, 0, DefaultLimit) :
                    Set([table |-> notes, value |-> rows, raised |-> ""])
           \/ /\ k.op = "read_note"
              /\ Set([table |-> notes, value |-> get_note(notes, k.note_id), raised |-> ""])
           \/ /\ k.op = "update_existing_note"
              /\ Set(update_note(notes, k.note_id, k.note))
           \/ /\ k.op = "delete_existing_note"
              /\ Set(delete_note(notes, k.note_id))
           \/ /\ k.op = "create_new_chat_message"
              /\ \E now \in {clock, clock + 1} :
                    /\ clock' = now
                    /\ chat_history' = create_chat_message(chat_history,
                          ChatMessageCreate(k.session_id, "assistant", "Hello",
                                            "claude", "claude-3-haiku-20240307"), now)
              /\ result' = [result EXCEPT ![c] =
                               [value |-> <<Last(chat_history')>>, raised |-> ""]]
              /\ UNCHANGED notes
    /\ UNCHANGED <<call, answer, work_queue>>

\* the endpoint resumes with the future's outcome and the response is sent
Respond(c) ==
    /\ GatewayStep
    /\ at[c] = "returned"
    /\ at' = [at EXCEPT ![c] = "answered"]
    /\ LET value == result[c].value
           op == call[c].op
       IN  answer' = [answer EXCEPT ![c] =
              IF result[c].raised # "" THEN InternalServerError
              ELSE IF op = "create_new_note" THEN create_new_note(value)
              ELSE IF op = "read_notes" THEN read_notes(value)
              ELSE IF op = "read_note" THEN read_note(value)
              ELSE IF op = "update_existing_note" THEN update_existing_note(value)
              ELSE IF op = "delete_existing_note" THEN delete_existing_note(value)
              ELSE create_new_chat_message(value)]
    /\ UNCHANGED <<notes, chat_history, clock, call, result, work_queue, threads>>

\* the caller has read the answer and may send its next request
AnswerRead(c) ==
    /\ GatewayStep
    /\ at[c] = "answered"
    /\ at' = [at EXCEPT ![c] = "idle"]
    /\ call' = [call EXCEPT ![c] = NoCall]
    /\ result' = [result EXCEPT ![c] = NoResult]
    /\ answer' = [answer EXCEPT ![c] = NoAnswer]
    /\ UNCHANGED <<notes, chat_history, clock, work_queue, threads>>

\* the backend has started on a database that may hold notes already
InitNotes ==
    /\ env = {"ANTHROPIC_API_KEY"}
    /\ RelayIdle
    /\ GatewayIdle
    /\ notes \in NoteSeeds
    /\ ClientIdle
    /\ PageIdle

NextNotes ==
    \/ \E c \in Callers, k \in Calls : Request(c, k)
    \/ WorkerStart
    \/ \E c \in Callers : WorkerRun(c)
    \/ \E c \in Callers : Respond(c)
    \/ \E c \in Callers : AnswerRead(c)

SpecNotes == InitNotes /\ [][NextNotes]_vars

-----------------------------------------------------------------------------
(* src/frontend/utils.py: the functions that call the backend *)

ClientFunctions ==
    {"call_generate_stream_api", "save_chat_message_to_backend",
     "get_chat_history_from_backend", "get_notes_from_backend",
     "create_note_backend", "update_note_backend", "delete_note_backend"}

\* Python exceptions, each with the classes an except clause catches it as
Bases(type) ==
    CASE type \in {"ConnectError", "ReadTimeout", "RemoteProtocolError"} ->
            {type, "TransportError", "RequestError", "HTTPError", "Exception"}
      [] type = "HTTPStatusError" -> {type, "HTTPError", "Exception"}
      [] type \in {"JSONDecodeError", "UnicodeDecodeError"} ->
            {type, "ValueError", "Exception"}
      [] OTHER -> {type, "Exception"}

\* Python values a function returns
PyNone == [type |-> "NoneType", items |-> <<>>]

PyList(items) == [type |-> "list", items |-> items]

PyDict(items) == [type |-> "dict", items |-> items]

PyBool(b) == [type |-> "bool", items |-> IF b THEN <<"True">> ELSE <<"False">>]

\* how a call ended: with a return value or with an exception
Return(value) == [raised |-> NoError, returned |-> value]

Raise(error) == [raised |-> error, returned |-> [type |-> "", items |-> <<>>]]

\* statuses with which the backend or a proxy before it refuses a request
ErrorStatuses == {400, 404, 422, 500, 503}

\* bodies of a streamed answer, as sequences of byte chunks; C3 A9 are the
\* two bytes of one character
StreamBodies ==
    { <<>>,
      << <<"H", "i">>, <<"!">> >>,
      << <<"C3", "A9">>, <<"!">> >>,
      << <<"H", "C3">>, <<"A9", "!">> >> }

\* the exchanges of a request to /generate_stream
StreamExchanges ==
    {Exchange(f, 0, <<>>, FALSE, <<>>, "") : f \in {"ConnectError", "ReadTimeout"}}
    \cup {Exchange("", s, << <<"d", "e", "t", "a", "i", "l">> >>, TRUE, <<"detail">>, "") :
             s \in ErrorStatuses}
    \cup {Exchange("", 200, b, FALSE, <<>>, "") : b \in StreamBodies}
    \cup {Exchange("", 200, << <<"H", "i">> >>, FALSE, <<>>, "RemoteProtocolError")}

\* the exchanges of a request to one of the JSON endpoints
JsonExchanges ==
    {Exchange(f, 0, <<>>, FALSE, <<>>, "") : f \in {"ConnectError", "ReadTimeout"}}
    \cup {Exchange("", s, <<>>, TRUE, <<"detail">>, "") : s \in ErrorStatuses}
    \cup {Exchange("", 200, <<>>, TRUE, j, "") : j \in {<<>>, <<"item1", "item2">>}}
    \cup {Exchange("", 200, <<>>, FALSE, <<>>, "")}
    \cup {Exchange("", 200, <<>>, TRUE, <<"item1">>, "RemoteProtocolError")}

Exchanges(f) ==
    IF f = "call_generate_stream_api" THEN StreamExchanges ELSE JsonExchanges

\* chunk.decode("utf-8"): the text of a byte chunk, or UnicodeDecodeError
\* when a two-byte character is not whole within the chunk
RECURSIVE decode(_)
decode(bytes) ==
    IF bytes = <<>> THEN [ok |-> TRUE, text |-> ""]
    ELSE IF Head(bytes) = "C3"
         THEN IF Len(bytes) >= 2 /\ bytes[2] = "A9"
              THEN LET rest == decode(Tail(Tail(bytes)))
                   IN  [ok |-> rest.ok, text |-> "[e-acute]" \o rest.text]
              ELSE [ok |-> FALSE, text |-> ""]
    ELSE IF Head(bytes) = "A9" THEN [ok |-> FALSE, text |-> ""]
    ELSE LET rest == decode(Tail(bytes))
         IN  [ok |-> rest.ok, text |-> Head(bytes) \o rest.text]

\* response.raise_for_status()
raise_for_status(x) ==
    IF x.status_code \in 200..299 THEN NoError
    ELSE Error("HTTPStatusError", x.status_code)

\* the try block of the functions that send one request and read its whole
\* answer: await client.post/get/put/delete, raise_for_status and, where
\* the function reads it, response.json(); the exception that leaves it
Try(x, reads_json) ==
    IF x.failure # "" THEN Error(x.failure, 0)
    ELSE IF x.broken # "" THEN Error(x.broken, 0)
    ELSE IF raise_for_status(x) # NoError THEN raise_for_status(x)
    ELSE IF reads_json /\ ~x.is_json THEN Error("JSONDecodeError", 0)
    ELSE NoError

\* the except clause that catches an exception: the first of
\* HTTPStatusError, RequestError, Exception it is an instance of
Handler(error) ==
    IF "HTTPStatusError" \in Bases(error.type) THEN "HTTPStatusError"
    ELSE IF "RequestError" \in Bases(error.type) THEN "RequestError"
    ELSE "Exception"

\* variant: the function returns None whatever the backend answered
save_chat_message_to_backend_Quiet(x) == Return(PyNone)

save_chat_message_to_backend(x) ==
    LET e == Try(x, FALSE)
    IN  IF e = NoError THEN Return(PyNone)
        ELSE CASE Handler(e) = "HTTPStatusError" -> Raise(e)
               [] Handler(e) = "RequestError" -> Raise(e)
               [] OTHER -> Raise(e)

get_chat_history_from_backend(x) ==
    LET e == Try(x, TRUE)
    IN  IF e = NoError THEN Return(PyList(x.json))
        ELSE CASE Handler(e) = "HTTPStatusError" -> Return(PyList(<<>>))
               [] Handler(e) = "RequestError" -> Return(PyList(<<>>))
               [] OTHER -> Return(PyList(<<>>))

get_notes_from_backend(x) ==
    LET e == Try(x, TRUE)
    IN  IF e = NoError THEN Return(PyList(x.json))
        ELSE CASE Handler(e) = "HTTPStatusError" -> Return(PyList(<<>>))
               [] Handler(e) = "RequestError" -> Return(PyList(<<>>))
               [] OTHER -> Return(PyList(<<>>))

create_note_backend(x) ==
    LET e == Try(x, TRUE)
    IN  IF e = NoError THEN Return(PyDict(x.json))
        ELSE CASE Handler(e) = "HTTPStatusError" -> Return(PyNone)
               [] Handler(e) = "RequestError" -> Return(PyNone)
               [] OTHER -> Return(PyNone)

update_note_backend(x) ==
    LET e == Try(x, TRUE)
    IN  IF e = NoError THEN Return(PyDict(x.json))
        ELSE CASE Handler(e) = "HTTPStatusError" -> Return(PyNone)
               [] Handler(e) = "RequestError" -> Return(PyNone)
               [] OTHER -> Return(PyNone)

delete_note_backend(x) ==
    LET e == Try(x, FALSE)
    IN  IF e = NoError THEN Return(PyBool(TRUE))
        ELSE CASE Handler(e) = "HTTPStatusError" -> Return(PyBool(FALSE))
               [] Handler(e) = "RequestError" -> Return(PyBool(FALSE))
               [] OTHER -> Return(PyBool(FALSE))

\* a step of the client functions touches nothing of the backend
ClientStep ==
    UNCHANGED <<env, relayVars, queue, running, chat_history, owner, clock,
                response, gatewayVars, pageVars>>

\* a page calls function f; x is what the transport and the backend will do
\* with its request
ClientCall(f, x) ==
    /\ ClientStep
    /\ cpc = "idle"
    /\ fn' = f
    /\ http' = x
    /\ cpc' = "called"
    /\ UNCHANGED <<yielded, outcome>>

\* one of the functions that read the whole answer runs to its end
ClientAwait ==
    /\ ClientStep
    /\ cpc = "called"
    /\ fn # "call_generate_stream_api"
    /\ outcome' =
          CASE fn = "save_chat_message_to_backend" -> save_chat_message_to_backend(http)
            [] fn = "get_chat_history_from_backend" -> get_chat_history_from_backend(http)
            [] fn = "get_notes_from_backend" -> get_notes_from_backend(http)
            [] fn = "create_note_backend" -> create_note_backend(http)
            [] fn = "update_note_backend" -> update_note_backend(http)
            [] OTHER -> delete_note_backend(http)
    /\ cpc' = "done"
    /\ UNCHANGED <<fn, http, yielded>>

\* variant: the body is relayed whatever the status of the response
call_generate_stream_api_NoStatusCheck ==
    /\ ClientStep
    /\ cpc = "called"
    /\ fn = "call_generate_stream_api"
    /\ IF http.failure # ""
       THEN outcome' = Raise(Error(http.failure, 0)) /\ cpc' = "done"
       ELSE outcome' = outcome /\ cpc' = "streaming"
    /\ UNCHANGED <<fn, http, yielded>>

\* call_generate_stream_api up to its first yield: client.stream sends the
\* request, raise_for_status looks at the status line; each except clause
\* ends in a bare raise (utils.py 56-67, 73-94)
call_generate_stream_api ==
    /\ ClientStep
    /\ cpc = "called"
    /\ fn = "call_generate_stream_api"
    /\ LET e == IF http.failure # "" THEN Error(http.failure, 0)
                ELSE raise_for_status(http)
       IN  IF e = NoError
           THEN outcome' = outcome /\ cpc' = "streaming"
           ELSE /\ outcome' = CASE Handler(e) = "HTTPStatusError" -> Raise(e)
                                [] Handler(e) = "RequestError" -> Raise(e)
                                [] OTHER -> Raise(e)
                /\ cpc' = "done"
    /\ UNCHANGED <<fn, http, yielded>>

\* async for chunk in response.aiter_bytes(): yield chunk.decode("utf-8")
StreamYield ==
    /\ ClientStep
    /\ cpc = "streaming"
    /\ Len(yielded) < Len(http.chunks)
    /\ LET text == decode(http.chunks[Len(yielded) + 1])
       IN  IF text.ok
           THEN /\ yielded' = Append(yielded, text.text)
                /\ UNCHANGED <<cpc, outcome>>
           ELSE /\ outcome' = Raise(Error("UnicodeDecodeError", 0))
                /\ cpc' = "done"
                /\ UNCHANGED yielded
    /\ UNCHANGED <<fn, http>>

\* the body ends: the generator returns, or the transport error that cut
\* the body short is raised again
StreamStop ==
    /\ ClientStep
    /\ cpc = "streaming"
    /\ Len(yielded) = Len(http.chunks)
    /\ outcome' = IF http.broken = "" THEN Return(PyNone)
                  ELSE Raise(Error(http.broken, 0))
    /\ cpc' = "done"
    /\ UNCHANGED <<fn, http, yielded>>

\* the caller has the outcome
ClientDone ==
    /\ ClientStep
    /\ cpc = "done"
    /\ cpc' = "idle"
    /\ fn' = ""
    /\ http' = NoExchange
    /\ yielded' = <<>>
    /\ outcome' = NoOutcome

InitClient ==
    /\ env = {"ANTHROPIC_API_KEY"}
    /\ RelayIdle
    /\ GatewayIdle
    /\ notes = <<>>
    /\ ClientIdle
    /\ PageIdle

NextClient ==
    \/ \E f \in ClientFunctions : \E x \in Exchanges(f) : ClientCall(f, x)
    \/ ClientAwait
    \/ call_generate_stream_api
    \/ StreamYield
    \/ StreamStop
    \/ ClientDone

SpecClient == InitClient /\ [][NextClient]_vars

-----------------------------------------------------------------------------
(* src/frontend/pages/1_Chat_with_LLM.py and 1_Chat_with_LLM-v3.2-ERR.py *)

\* the scripts in pages/ that serve a chat
Pages == {"1_Chat_with_LLM", "1_Chat_with_LLM-v3.2-ERR"}

\* at most this many prompts are entered in one session
MaxTurns == 2

\* what the user types in turn t
PromptOf(t) == <<"first", "second", "third", "fourth">>[t]

\* at most this many times the chat is cleared
MaxClears == 1

\* str(uuid.uuid4()): the ids generated, each one new; n is the number of
\* the ids generated before
uuid4(n) == <<"s1", "s2", "s3", "s4">>[n + 1]

\* the number of ids generated up to the id given
Generated(id) == CHOOSE n \in 1..4 : uuid4(n - 1) = id

\* st.session_state.chat_session_id, llm_provider, llm_model of the session
\* when the page is first opened
PageSession ==
    [chat_session_id |-> "s1", llm_provider |-> "claude",
     llm_model |-> "claude-3-haiku-20240307"]

\* all bytes of a body, in order
RECURSIVE Flatten(_)
Flatten(chunks) ==
    IF chunks = <<>> THEN <<>> ELSE Head(chunks) \o Flatten(Tail(chunks))

\* the backend wrote the user message before it answered: it does so for
\* every request that passes validation, before get_llm (main.py 64-91)
UserWritten(x) == x.failure = "" /\ x.status_code \in {200, 400}

\* st.empty(), and message_placeholder.markdown(text) or
\* markdown(text + cursor mark): the text shown, and whether the cursor
\* mark follows it
Empty == [text |-> "", cursor |-> FALSE]

Markdown(text, cursor) == [text |-> text, cursor |-> cursor]

\* the message appended to st.session_state.messages
LocalMessage(role, content) == [role |-> role, content |-> content]

\* a row is written in the current turn
WriteRow(role, text, now) ==
    /\ chat_history' = create_chat_message(chat_history,
          ChatMessageCreate(chat_session_id, role, text,
                            PageSession.llm_provider, PageSession.llm_model), now)
    /\ owner' = Append(owner, Last(turns).prompt)
    /\ clock' = now

\* a step of the chat page touches nothing else of the backend or frontend
PageStep ==
    UNCHANGED <<env, relayVars, queue, running, response, gatewayVars,
                fn, cpc, outcome, page, chat_session_id>>

\* st.chat_input returned a prompt: it is appended to the local list and
\* get_streaming_response starts; x is what the transport and the backend
\* do with the request to /generate_stream
ChatInput(x) ==
    /\ PageStep
    /\ ppc = "idle"
    /\ Len(turns) < MaxTurns
    /\ LET prompt == PromptOf(Len(turns) + 1)
       IN  /\ messages' = Append(messages, LocalMessage("user", prompt))
           /\ turns' = Append(turns, [prompt |-> prompt, ended |-> "running",
                                      session_id |-> chat_session_id,
                                      before |-> messages])
    /\ message_placeholder' = Empty
    /\ current_response' = ""
    /\ http' = x
    /\ yielded' = <<>>
    /\ ppc' = "requesting"
    /\ UNCHANGED <<chat_history, owner, clock>>

\* call_generate_stream_api up to its first yield, seen from the page: the
\* request is sent and the status line read
OpenStream ==
    /\ PageStep
    /\ ppc = "requesting"
    /\ LET e == IF http.failure # "" THEN Error(http.failure, 0)
                ELSE raise_for_status(http)
       IN  ppc' = IF e = NoError THEN "streaming" ELSE "except"
    /\ IF UserWritten(http)
       THEN \E now \in {clock, clock + 1} : WriteRow("user", Last(turns).prompt, now)
       ELSE UNCHANGED <<chat_history, owner, clock>>
    /\ UNCHANGED <<messages, current_response, message_placeholder, http,
                   yielded, turns>>

\* async for chunk in stream_generator: current_response += chunk.  A
\* chunk that does not decode ends the generator; the connection is closed
\* and the backend, which may have relayed everything by then, has or has
\* not written the assistant message.
StreamChunk ==
    /\ PageStep
    /\ ppc = "streaming"
    /\ Len(yielded) < Len(http.chunks)
    /\ LET text == decode(http.chunks[Len(yielded) + 1])
       IN  IF text.ok
           THEN /\ yielded' = Append(yielded, text.text)
                /\ current_response' = current_response \o text.text
                /\ message_placeholder' = Markdown(current_response', TRUE)
                /\ UNCHANGED <<ppc, chat_history, owner, clock>>
           ELSE /\ ppc' = "except"
                /\ \/ UNCHANGED <<chat_history, owner, clock>>
                   \/ /\ http.broken = ""
                      /\ \E now \in {clock, clock + 1} :
                            WriteRow("assistant", decode(Flatten(http.chunks)).text, now)
                /\ UNCHANGED <<yielded, current_response, message_placeholder>>
    /\ UNCHANGED <<messages, http, turns>>

\* the body ends.  A body cut short raises in the page.  A body that ends
\* in order was preceded by the backend's write of the assistant message
\* (main.py 101-109); 1_Chat_with_LLM.py then appends the answer to the
\* local list (lines 85-90), the v3.2-ERR page goes on to save it (84-90).
StreamEnd ==
    /\ PageStep
    /\ ppc = "streaming"
    /\ Len(yielded) = Len(http.chunks)
    /\ IF http.broken # ""
       THEN /\ ppc' = "except"
            /\ UNCHANGED <<messages, turns, chat_history, owner, clock,
                           message_placeholder>>
       ELSE /\ message_placeholder' = Markdown(current_response, FALSE)
            /\ \E now \in {clock, clock + 1} :
                  WriteRow("assistant", decode(Flatten(http.chunks)).text, now)
            /\ turns' = [turns EXCEPT ![Len(turns)].ended = "completed"]
            /\ IF page = "1_Chat_with_LLM"
               THEN /\ messages' = Append(messages,
                                      LocalMessage("assistant", current_response))
                    /\ ppc' = "done"
               ELSE /\ messages' = messages
                    /\ ppc' = "saving"
    /\ UNCHANGED <<current_response, http, yielded>>

\* 1_Chat_with_LLM-v3.2-ERR.py 84-93: save_chat_message_to_backend posts
\* the assistant message; y is what happens to that request.  A request
\* answered 200 has appended a row.  The function raises on failure; when
\* it returns, asyncio.run at line 93 raises RuntimeError as an event loop
\* is already running: the except clause is entered either way.
SaveAssistant(y) ==
    /\ PageStep
    /\ ppc = "saving"
    /\ IF y.failure = "" /\ y.status_code = 200
       THEN \E now \in {clock, clock + 1} : WriteRow("assistant", current_response, now)
       ELSE UNCHANGED <<chat_history, owner, clock>>
    /\ ppc' = "except"
    /\ UNCHANGED <<messages, current_response, message_placeholder, http,
                   yielded, turns>>

\* variant: the except clause leaves the local list as it is
Except_KeepsQuestion ==
    /\ PageStep
    /\ ppc = "except"
    /\ current_response' = ""
    /\ turns' = [turns EXCEPT ![Len(turns)].ended =
                    IF @ = "completed" THEN @ ELSE "failed"]
    /\ ppc' = "done"
    /\ UNCHANGED <<messages, message_placeholder, http, yielded, chat_history,
                   owner, clock>>

\* except Exception: the last local message is dropped when it is the
\* user's, and the partial response is cleared
Except ==
    /\ PageStep
    /\ ppc = "except"
    /\ messages' = IF messages # <<>> /\ Last(messages).role = "user"
                   THEN SubSeq(messages, 1, Len(messages) - 1)
                   ELSE messages
    /\ current_response' = ""
    /\ turns' = [turns EXCEPT ![Len(turns)].ended =
                    IF @ = "completed" THEN @ ELSE "failed"]
    /\ ppc' = "done"
    /\ UNCHANGED <<message_placeholder, http, yielded, chat_history, owner, clock>>

\* the script has run to its end and waits for the next prompt
Rerun ==
    /\ PageStep
    /\ ppc = "done"
    /\ ppc' = "idle"
    /\ http' = NoExchange
    /\ yielded' = <<>>
    /\ message_placeholder' = Empty
    /\ UNCHANGED <<messages, current_response, turns, chat_history, owner, clock>>

\* variant: the button also deletes the rows of the session from the store
ClearChat_DeleteRows ==
    /\ ppc = "idle"
    /\ messages # <<>>
    /\ Generated(chat_session_id) <= MaxClears
    /\ messages' = <<>>
    /\ chat_session_id' = uuid4(Generated(chat_session_id))
    /\ LET kept == {i \in DOMAIN chat_history :
                       chat_history[i].session_id # chat_session_id}
           nth(j) == CHOOSE i \in kept : Cardinality({k \in kept : k < i}) = j - 1
       IN  /\ chat_history' = [j \in 1..Cardinality(kept) |-> chat_history[nth(j)]]
           /\ owner' = [j \in 1..Cardinality(kept) |-> owner[nth(j)]]
    /\ UNCHANGED <<env, relayVars, queue, running, response, gatewayVars,
                   clientVars, page, current_response, ppc, turns, clock,
                   message_placeholder>>

\* the button "Clear Chat for this Session" (lines 113-120) with a list
\* that is not empty: the local list is emptied and a new session id
\* generated; the rerun loads the history of the new session, under which
\* the store holds nothing (line 45).  The store is not called to delete.
ClearChat ==
    /\ ppc = "idle"
    /\ messages # <<>>
    /\ Generated(chat_session_id) <= MaxClears
    /\ messages' = <<>>
    /\ chat_session_id' = uuid4(Generated(chat_session_id))
    /\ UNCHANGED <<env, relayVars, queue, running, chat_history, owner, clock,
                   response, gatewayVars, clientVars, page, current_response,
                   ppc, turns, message_placeholder>>

\* a new session: a fresh chat_session_id, under which the store holds
\* nothing, so the history loaded at the start is empty
InitPage ==
    /\ env = {"ANTHROPIC_API_KEY"}
    /\ RelayIdle
    /\ GatewayIdle
    /\ notes = <<>>
    /\ ClientIdle
    /\ page \in Pages
    /\ chat_session_id = PageSession.chat_session_id
    /\ message_placeholder = Empty
    /\ messages = <<>>
    /\ current_response = ""
    /\ ppc = "idle"
    /\ turns = <<>>

NextPage ==
    \/ \E x \in StreamExchanges : ChatInput(x)
    \/ OpenStream
    \/ StreamChunk
    \/ StreamEnd
    \/ \E y \in JsonExchanges : SaveAssistant(y)
    \/ Except
    \/ Rerun
    \/ ClearChat

SpecPage == InitPage /\ [][NextPage]_vars

-----------------------------------------------------------------------------
(* Properties *)

UserRows(r) ==
    {i \in DOMAIN chat_history : owner[i] = r /\ chat_history[i].role = "user"}

AsstRows(r) ==
    {i \in DOMAIN chat_history : owner[i] = r /\ chat_history[i].role = "assistant"}

\* work items of request r for a message of the given role, queued or running
Jobs(r, role) ==
    {j \in Range(queue) \cup {running} : j.req = r /\ j.message.role = role}

\* row i carries the session, provider and model of request r
Tagged(i, r) ==
    /\ chat_history[i].session_id = req[r].session_id
    /\ chat_history[i].llm_provider = req[r].llm_provider
    /\ chat_history[i].llm_model = req[r].llm_model

\* the store holds exactly one user message of r, and it is r's question
UserMessageStored(r) ==
    /\ Cardinality(UserRows(r)) = 1
    /\ \A i \in UserRows(r) : chat_history[i].message = req[r].question /\ Tagged(i, r)

\* the store holds exactly one assistant message of r: the fragments the
\* caller received, concatenated, tagged like r's user message
AssistantMessageStored(r) ==
    /\ Cardinality(AsstRows(r)) = 1
    /\ \A i \in AsstRows(r) :
          /\ chat_history[i].message = Concat(relayed[r])
          /\ Tagged(i, r)
          /\ \E u \in UserRows(r) :
                /\ chat_history[u].session_id = chat_history[i].session_id
                /\ chat_history[u].llm_provider = chat_history[i].llm_provider
                /\ chat_history[u].llm_model = chat_history[i].llm_model

Terminal(r) == pc[r] \in {"completed", "failed", "rejected"}

\* C1: whenever any output of a request is observable to its caller (the
\* response has started or a fragment was relayed), and from the moment a
\* fragment is drawn from the provider, the store holds exactly one user
\* message of the request, carrying its question, session, provider, model.
C1_UserMessageBeforeFirstFragment ==
    \A r \in Reqs :
        /\ Cardinality(UserRows(r)) <= 1
        /\ (relayed[r] # <<>> \/ pulled[r] # <<>> \/ body[r] # "none" \/ status[r] = 200)
              => UserMessageStored(r)

C1_Witness ==
    \E r \in Reqs : Len(relayed[r]) = 1 /\ pc[r] = "pull" /\ UserMessageStored(r)

CancelledBeforeWrite(r) ==
    pc[r] = "failed" /\ discAt[r] = "await_asst_write"

C3_UpstreamFailure ==
    \A r \in Reqs :
        cause[r] = "upstream" =>
            /\ relayed[r] = pulled[r]
            /\ body[r] = "aborted"
            /\ pc[r] = "failed"
            /\ AsstRows(r) = {}
            /\ Jobs(r, "assistant") = {}
            /\ UserMessageStored(r)

C3_Witness ==
    \E r \in Reqs :
        cause[r] = "upstream" /\ Len(relayed[r]) = 1 /\ UserMessageStored(r)

\* C4: once the caller has disconnected while the generator was suspended
\* between two fragments or after the last one (awaiting the provider, or
\* at the yield), no further fragment is drawn from the provider or relayed
\* and the assistant write of the request is neither submitted nor run; a
\* write already submitted but not yet started by the worker never runs.
C4_DisconnectStopsRelay ==
    /\ [](\A r \in Reqs :
            /\ discAt[r] \in {"pull", "send"} =>
                  /\ pc[r] = "failed"
                  /\ ~exhausted[r]
                  /\ AsstRows(r) = {}
                  /\ Jobs(r, "assistant") = {}
            /\ CancelledBeforeWrite(r) =>
                  /\ AsstRows(r) = {}
                  /\ Jobs(r, "assistant") = {})
    /\ [][\A r \in Reqs :
            discAt[r] \in {"pull", "send"} =>
                pulled'[r] = pulled[r] /\ relayed'[r] = relayed[r]]_vars

C4_Witness ==
    /\ \E r \in Reqs : discAt[r] = "pull" /\ Len(pulled[r]) = MaxFrags
    /\ \E r \in Reqs : discAt[r] = "send" /\ Len(pulled[r]) = 1

\* the position of the row with the given id in a listing, 0 if it is absent
Position(rows, id) ==
    IF \E j \in DOMAIN rows : rows[j].id = id
    THEN CHOOSE j \in DOMAIN rows : rows[j].id = id
    ELSE 0

\* C5 as claimed: a listing of session s shows, for every generation of s
\* whose assistant message is stored, the user message of the turn at an
\* earlier position than its assistant message, whatever their timestamps.
C5_UserBeforeAssistant ==
    response # NoResponse =>
        \A r \in Reqs :
            (req[r].session_id = response.session_id /\ AsstRows(r) # {}) =>
                \A u \in UserRows(r), a \in AsstRows(r) :
                    /\ Position(response.rows, u) > 0
                    /\ Position(response.rows, u) < Position(response.rows, a)

\* the request fields the claim wants refused
KnownProviders == {"claude", "openai", "gemini"}

KnownModels ==
    {"claude-3-5-sonnet-20240620", "claude-3-opus-20240229", "claude-3-haiku-20240307",
     "gpt-4o", "gpt-4o-mini", "gpt-3.5-turbo", "gemini-1.5-flash", "gemini-1.5-pro"}

Malformed(input) ==
    \/ input.question = ""
    \/ input.llm_provider \notin KnownProviders
    \/ input.llm_model \notin KnownModels
    \/ input.temperature < 0
    \/ input.temperature > 10
    \/ input.max_tokens <= 0

\* nothing of request r is in the store or on its way to it, and the
\* provider was not contacted for it
NothingDone(r) ==
    /\ UserRows(r) = {} /\ AsstRows(r) = {}
    /\ Jobs(r, "user") = {} /\ Jobs(r, "assistant") = {}
    /\ pulled[r] = <<>> /\ relayed[r] = <<>> /\ ~exhausted[r]

Validated(r) == pc[r] \notin {"idle", "validating"}

MainPath == <<"Idle", "Validating", "UserPersisted", "Streaming", "Completed">>

\* C7 as claimed: a request that has reached Completed or Failed went
\* through Idle, Validating, UserPersisted and Streaming, in that order.
C7_Original ==
    \A r \in Reqs :
        RelayState(pc[r]) \in {"Completed", "Failed"} =>
            trace[r] \in {MainPath, SubSeq(MainPath, 1, 4) \o <<"Failed">>}

\* the paths through the relay states the code takes
RelayPaths ==
    {SubSeq(MainPath, 1, k) : k \in 1..5}
        \cup {SubSeq(MainPath, 1, k) \o <<"Failed">> : k \in 2..4}

\* C7 amended: a request moves through Idle, Validating, UserPersisted,
\* Streaming in that order and ends in exactly one of Completed, reached
\* from Streaming with the assistant message stored, or Failed, reached
\* from Validating, UserPersisted or Streaming with no assistant message
\* stored or on its way; once in Completed or Failed it stays there,
\* relays no further fragment and writes nothing more to the store.
C7_RelayStateMachine ==
    /\ [](\A r \in Reqs :
            /\ trace[r] \in RelayPaths
            /\ Last(trace[r]) = RelayState(pc[r])
            /\ RelayState(pc[r]) = "Completed" =>
                  (Cardinality(AsstRows(r)) = 1 /\ Jobs(r, "assistant") = {})
            /\ RelayState(pc[r]) = "Failed" =>
                  (AsstRows(r) = {} /\ Jobs(r, "assistant") = {} /\ Jobs(r, "user") = {}))
    /\ [][\A r \in Reqs :
            RelayState(pc[r]) \in {"Completed", "Failed"} =>
                /\ RelayState(pc'[r]) = RelayState(pc[r])
                /\ relayed'[r] = relayed[r]
                /\ pulled'[r] = pulled[r]
                /\ UserRows(r)' = UserRows(r)
                /\ AsstRows(r)' = AsstRows(r)
                /\ Jobs(r, "user")' = {} /\ Jobs(r, "assistant")' = {}]_vars

C7_Witness ==
    /\ \E r \in Reqs : trace[r] = MainPath /\ pc[r] = "completed"
    /\ \E r \in Reqs : trace[r] = <<"Idle", "Validating", "UserPersisted", "Failed">>

\* the environment variable get_llm is documented to need for a provider
CredentialOf(provider) ==
    CASE provider = "claude" -> "ANTHROPIC_API_KEY"
      [] provider = "openai" -> "OPENAI_API_KEY"
      [] provider = "gemini" -> "GOOGLE_API_KEY"
      [] OTHER -> "none"

PastGetLLM(r) ==
    pc[r] \in {"pull", "send", "await_asst_write", "asst_persisted", "completed", "failed"}

\* C8: a request whose provider's credential is absent has, once get_llm
\* was called for it, failed with HTTP 400 and the detail text naming the
\* missing variable, and no fragment was drawn or relayed for it; a request
\* whose provider's credential is present gets its 200 response, whichever
\* other credentials are absent.
C8_MissingCredential ==
    \A r \in Reqs :
        PastGetLLM(r) =>
            /\ CredentialOf(req[r].llm_provider) \notin env =>
                  /\ pc[r] = "failed" /\ cause[r] = "config"
                  /\ status[r] = 400
                  /\ detail[r] = CredentialOf(req[r].llm_provider) \o " environment variable not set."
                  /\ body[r] = "none"
                  /\ pulled[r] = <<>> /\ relayed[r] = <<>>
            /\ CredentialOf(req[r].llm_provider) \in env =>
                  /\ status[r] = 200
                  /\ cause[r] # "config"

C8_Witness ==
    \E r, q \in Reqs :
        /\ status[r] = 400 /\ CredentialOf(req[r].llm_provider) \notin env
        /\ relayed[q] # <<>> /\ CredentialOf(req[q].llm_provider) \in env
        /\ pc[q] = "completed"

\* C9 as claimed: a request whose provider stream failed was answered with
\* HTTP 500 and a detail text.
C9_UpstreamFailureIs500 ==
    \A r \in Reqs :
        cause[r] = "upstream" => (status[r] = 500 /\ detail[r] # "")

\* C10: the listing of a session under which the store holds no message,
\* and never held one as rows are only ever added, is the empty sequence
\* with status 200, whatever else the store holds.
C10_UnknownSessionEmpty ==
    (/\ response # NoResponse
     /\ \A i \in DOMAIN chat_history : chat_history[i].session_id # response.session_id)
        => (response.rows = <<>> /\ response.status = 200)

C10_Witness ==
    /\ response # NoResponse
    /\ response.session_id = UnknownSession
    /\ Len(chat_history) >= 2
    /\ response.rows = <<>>

\* C11: whatever was appended to whatever sessions, the listing of session s
\* holds only rows whose session_id is s, each stored row of s once (the
\* store stays below the limit of 100), with timestamps that never decrease
\* from one entry to the next.
C11_ListInSessionAscending ==
    response # NoResponse =>
        LET rows == response.rows
        IN  /\ \A j \in DOMAIN rows : rows[j].session_id = response.session_id
            /\ \A j, k \in DOMAIN rows : j < k => rows[j].timestamp <= rows[k].timestamp
            /\ \A j, k \in DOMAIN rows : j # k => rows[j].id # rows[k].id
            /\ {rows[j] : j \in DOMAIN rows} =
                  {chat_history[i] : i \in {i \in DOMAIN chat_history :
                        chat_history[i].session_id = response.session_id}}

C11_Witness ==
    /\ response # NoResponse
    /\ Len(response.rows) = 2
    /\ response.rows[1].timestamp < response.rows[2].timestamp
    /\ \E i \in DOMAIN chat_history :
          /\ chat_history[i].session_id # response.session_id
          /\ response.rows[1].id < i
          /\ i < response.rows[2].id

-----------------------------------------------------------------------------
(* Properties of the notes endpoints, checked under SpecNotes *)

\* caller c has the answer of a request to endpoint op in hand
Answered(c, op) == at[c] = "answered" /\ call[c].op = op

\* the step in which the worker thread runs the crud function for caller c
Ran(c, op) == at[c] = "running" /\ at'[c] = "returned" /\ call[c].op = op

\* the rows of a table other than the one with this id, in table order
Others(table, note_id) == SelectSeq(table, LAMBDA n : n.id # note_id)

\* C12 as claimed: whatever title and content are sent, POST /notes/ answers
\* 200 with a note that carries an id and a timestamp given by the server
\* and the title and content sent, and get_note on that id finds a note
\* with that title and content.
C12_CreateNoteRoundTrip ==
    \A c \in Callers :
        Answered(c, "create_new_note") =>
            /\ answer[c].status = 200
            /\ Len(answer[c].body) = 1
            /\ answer[c].body[1].id >= 1
            /\ answer[c].body[1].title = call[c].note.title
            /\ answer[c].body[1].content = call[c].note.content
            /\ get_note(notes, answer[c].body[1].id) # <<>>
            /\ Head(get_note(notes, answer[c].body[1].id)).title = call[c].note.title
            /\ Head(get_note(notes, answer[c].body[1].id)).content = call[c].note.content

C14_DeleteThenNotFound ==
    /\ [](\A c \in Callers :
            (Answered(c, "delete_existing_note") /\ result[c].value # <<>>) =>
                /\ answer[c].status = 200
                /\ answer[c].body = <<NoteResponse(Head(result[c].value))>>
                /\ answer[c].body[1].id = call[c].note_id)
    /\ [][\A c \in Callers :
            (Ran(c, "delete_existing_note") /\ get_note(notes, call[c].note_id) # <<>>) =>
                LET id == call[c].note_id
                IN  /\ result'[c].value = get_note(notes, id)
                    /\ Len(notes') = Len(notes) - 1
                    /\ notes' = Others(notes, id)
                    /\ get_note(notes', id) = <<>>
                    /\ read_note(get_note(notes', id)).status = 404
                    /\ \A n \in NoteInputs :
                          /\ update_note(notes', id, n).value = <<>>
                          /\ update_note(notes', id, n).table = notes'
                          /\ update_existing_note(update_note(notes', id, n).value).status = 404
                    /\ delete_note(notes', id).value = <<>>
                    /\ delete_existing_note(delete_note(notes', id).value).status = 404]_vars

C14_Witness ==
    \E c \in Callers :
        /\ Answered(c, "delete_existing_note")
        /\ answer[c].status = 200
        /\ get_note(notes, call[c].note_id) = <<>>
        /\ Len(notes) = 2

\* the endpoints that take a note id
ByIdOps == {"read_note", "update_existing_note", "delete_existing_note"}

\* C15: GET, PUT and DELETE /notes/{id} with an id that names no stored
\* note find nothing, are answered 404, and neither the crud call nor the
\* response changes table notes or table chat_history.
C15_UnknownIdIs404 ==
    /\ [](\A c \in Callers :
            (at[c] = "answered" /\ call[c].op \in ByIdOps /\ result[c].value = <<>>) =>
                (answer[c].status = 404 /\ answer[c].detail = "Note not found"))
    /\ [][\A c \in Callers : \A op \in ByIdOps :
            /\ (Ran(c, op) /\ get_note(notes, call[c].note_id) = <<>>) =>
                  /\ result'[c].value = <<>>
                  /\ notes' = notes
                  /\ chat_history' = chat_history
            /\ (at[c] = "returned" /\ call[c].op = op /\ at'[c] = "answered") =>
                  /\ notes' = notes
                  /\ chat_history' = chat_history]_vars

C15_Witness ==
    /\ \E c \in Callers :
          /\ Answered(c, "delete_existing_note")
          /\ call[c].note_id = 9
          /\ answer[c].status = 404
    /\ notes # <<>>
    /\ chat_history # <<>>

\* the ids of a listing, in its order
IdsOf(rows) == [j \in DOMAIN rows |-> rows[j].id]

WritesExecuting == {c \in threads : call[c].op \in WriteOps}

-----------------------------------------------------------------------------
(* Properties of the client functions, checked under SpecClient *)

\* the functions that make the backend write, and those that only read
WritePath ==
    {"call_generate_stream_api", "save_chat_message_to_backend",
     "create_note_backend", "update_note_backend", "delete_note_backend"}

ReadPath == {"get_chat_history_from_backend", "get_notes_from_backend"}

\* the backend answered with a status that is not a success
NonSuccess(x) == x.failure = "" /\ x.status_code \notin 200..299

\* the transport failed, before the response or within its body
TransportFailed(x) == x.failure # "" \/ x.broken # ""

\* the read-path functions never raise, and any failure gives an empty list
ReadsDegrade ==
    (cpc = "done" /\ fn \in ReadPath) =>
        /\ outcome.raised = NoError
        /\ outcome.returned.type = "list"
        /\ (NonSuccess(http) \/ TransportFailed(http) \/ ~http.is_json) =>
              outcome.returned = PyList(<<>>)

\* C18 as claimed: every write-path function raises when the backend
\* answers with a non-success status or the transport fails, and the
\* read-path functions return an empty result on any failure.
C18_Original ==
    /\ (cpc = "done" /\ fn \in WritePath
           /\ (NonSuccess(http) \/ TransportFailed(http))) =>
          outcome.raised # NoError
    /\ ReadsDegrade

\* C18: on a non-success status or a transport failure, sending a
\* generation and saving a chat message raise that error; creating and
\* updating a note return None and deleting a note returns False, without
\* raising; the read-path functions return an empty list on any failure.
C18_WhoRaises ==
    /\ (cpc = "done" /\ (NonSuccess(http) \/ TransportFailed(http))) =>
          /\ fn \in {"call_generate_stream_api", "save_chat_message_to_backend"} =>
                /\ outcome.raised # NoError
                /\ NonSuccess(http) =>
                      outcome.raised = Error("HTTPStatusError", http.status_code)
                /\ ~NonSuccess(http) => "RequestError" \in Bases(outcome.raised.type)
          /\ fn \in {"create_note_backend", "update_note_backend"} =>
                outcome = Return(PyNone)
          /\ fn = "delete_note_backend" => outcome = Return(PyBool(FALSE))
    /\ ReadsDegrade

C18_Witness ==
    /\ cpc = "done"
    /\ fn = "create_note_backend"
    /\ http.status_code = 500
    /\ outcome = Return(PyNone)

\* C19: when /generate_stream is answered with a non-success status, the
\* streaming call yields nothing and raises an error that holds the status
\* code; when the backend cannot be reached it yields nothing and raises an
\* error of another class: neither error is an instance of the other's
\* class, so one except clause per class tells them apart.
C19_StatusErrorIsDistinct ==
    fn = "call_generate_stream_api" =>
        /\ NonSuccess(http) =>
              /\ yielded = <<>>
              /\ cpc \in {"called", "done"}
              /\ cpc = "done" =>
                    /\ outcome.raised = Error("HTTPStatusError", http.status_code)
                    /\ "RequestError" \notin Bases(outcome.raised.type)
                    /\ Handler(outcome.raised) = "HTTPStatusError"
        /\ http.failure # "" =>
              /\ yielded = <<>>
              /\ cpc \in {"called", "done"}
              /\ cpc = "done" =>
                    /\ outcome.raised.type = http.failure
                    /\ "RequestError" \in Bases(outcome.raised.type)
                    /\ "HTTPStatusError" \notin Bases(outcome.raised.type)
                    /\ Handler(outcome.raised) = "RequestError"

C19_Witness ==
    /\ fn = "call_generate_stream_api"
    /\ cpc = "done"
    /\ http.status_code = 422
    /\ http.chunks # <<>>
    /\ yielded = <<>>
    /\ outcome.raised = Error("HTTPStatusError", 422)

-----------------------------------------------------------------------------
(* Properties of the chat page, checked under SpecPage *)

\* the stored rows of a role written in the turn of this prompt
TurnRows(prompt, role) ==
    {i \in DOMAIN chat_history : owner[i] = prompt /\ chat_history[i].role = role}

\* C20 as claimed: the chat page sends no chat message to the store itself;
\* once a turn has completed and the script has run to its end, the local
\* list holds the turn's prompt and answer and the store holds exactly one
\* user row and exactly one assistant row of that turn.
C20_ServerIsSoleWriter ==
    /\ ppc # "saving"
    /\ \A t \in DOMAIN turns :
          (turns[t].ended = "completed" /\ (t < Len(turns) \/ ppc \in {"done", "idle"})) =>
              /\ Cardinality(TurnRows(turns[t].prompt, "user")) = 1
              /\ Cardinality(TurnRows(turns[t].prompt, "assistant")) = 1
              /\ turns[t].session_id = chat_session_id => \E j \in DOMAIN messages :
                    /\ messages[j] = LocalMessage("user", turns[t].prompt)
                    /\ j < Len(messages)
                    /\ messages[j + 1].role = "assistant"

-----------------------------------------------------------------------------
(* Properties of concurrent requests of /generate_stream, checked under Spec *)

\* the text of the first k fragments of the provider stream of request r
StreamText(r, k) == Concat(SubSeq(Stream[r], 1, k))

\* the fragments s are the first fragments of the provider stream of r
OwnFragments(r, s) ==
    /\ Len(s) <= Len(Stream[r])
    /\ s = SubSeq(Stream[r], 1, Len(s))

\* C21: under any interleaving of the requests, what each caller has been
\* sent, the chunk held at the yield and the text gathered for the
\* assistant message are the first fragments of that request's own provider
\* stream, and every stored assistant message is the text of the first
\* fragments of the stream of the request that wrote it; no fragment of
\* another request is among them.
C21_NoCrossRequestState ==
    /\ \A r \in Reqs :
          /\ OwnFragments(r, relayed[r])
          /\ OwnFragments(r, pulled[r])
          /\ full[r] = Concat(pulled[r])
          /\ chunk[r] # "" => chunk[r] = Last(pulled[r])
    /\ \A i \in DOMAIN chat_history :
          chat_history[i].role = "assistant" =>
              /\ chat_history[i].message = Concat(relayed[owner[i]])
              /\ \E k \in 0..MaxFrags : chat_history[i].message = StreamText(owner[i], k)

\* the two requests stream at the same time in one session, r2 has relayed
\* a fragment before r1's assistant message was written, and that message
\* is r1's own text
C21_Witness ==
    /\ req["r1"].session_id = req["r2"].session_id
    /\ pc["r2"] \in {"pull", "send"}
    /\ relayed["r2"] # <<>>
    /\ Len(relayed["r1"]) = MaxFrags
    /\ \E i \in AsstRows("r1") :
          /\ chat_history[i].message = StreamText("r1", MaxFrags)
          /\ \E u \in UserRows("r2") : u < i

\* the rows of a session, in the order of the table
SessionRows(table, session_id) ==
    SelectSeq(table, LAMBDA row : row.session_id = session_id)

\* sequence t is sequence s with zero or more elements appended
Extends(t, s) ==
    /\ Len(s) <= Len(t)
    /\ SubSeq(t, 1, Len(s)) = s

-----------------------------------------------------------------------------
(* Properties of the streaming call of the client, checked under SpecClient *)

\* the text the relay sent in the body of the current exchange
SentText == decode(Flatten(http.chunks)).text

\* C23: the streaming call reproduces the server's output.  However the
\* transport splits the bytes of a body that arrives whole with status 200,
\* call_generate_stream_api ends without an exception and the text
\* fragments it yielded, concatenated in order, are the text the relay sent.
C23_StreamReproduced ==
    ( /\ fn = "call_generate_stream_api"
      /\ cpc = "done"
      /\ http.failure = ""
      /\ http.status_code = 200
      /\ http.broken = "" ) =>
        /\ outcome.raised = NoError
        /\ Concat(yielded) = SentText

-----------------------------------------------------------------------------
(* Properties of /generate_stream over a store that may fail, checked     *)
(* under SpecLive                                                          *)

\* request r has been accepted and has not come to its end
InFlight(r) ==
    RelayState(pc[r]) \in {"Validating", "UserPersisted", "Streaming"}

\* C24: every request that has arrived comes to its end: with the worker
\* thread, the event loop and the provider making progress, a request that
\* is being validated, has its user message persisted or is streaming
\* reaches Completed or Failed, with its coroutine finished; none stays in
\* UserPersisted or Streaming forever.
C24_EveryRequestEnds ==
    \A r \in Reqs : InFlight(r) ~> Terminal(r)

\* a request that drew every fragment of its stream has completed, and
\* another has failed on the store
C24_Witness ==
    \E r, q \in Reqs :
        /\ pc[r] = "completed"
        /\ Len(pulled[r]) = MaxFrags
        /\ body[r] = "closed"
        /\ pc[q] = "failed"
        /\ cause[q] = "store"

-----------------------------------------------------------------------------
(* Properties of a chat turn on the chat page, checked under SpecPage *)

\* the turn under way has come to the end of get_streaming_response after a
\* stream that ended in order
TurnCompleted ==
    /\ turns # <<>>
    /\ Last(turns).ended = "completed"
    /\ ppc = "done"

\* C25: during a chat turn the text shown after the k-th received chunk is
\* the concatenation of chunks 1..k, so each text shown is a prefix of the
\* next, and when the stream has ended in order and the turn is over the
\* local message list ends with the user entry of the turn followed by one
\* assistant entry whose content is the concatenation of all chunks.
C25_DisplayAndLocalList ==
    /\ (ppc = "streaming" /\ yielded # <<>>) =>
          /\ message_placeholder.text = Concat(yielded)
          /\ current_response = Concat(yielded)
    /\ TurnCompleted =>
          /\ message_placeholder.text = Concat(yielded)
          /\ Len(messages) >= 2
          /\ messages[Len(messages) - 1] = LocalMessage("user", Last(turns).prompt)
          /\ Last(messages) = LocalMessage("assistant", Concat(yielded))

-----------------------------------------------------------------------------
(* Properties of the listing in a long session, checked under SpecHistory *)

\* the listing just answered is that of the session of request r
ListingFor(r) ==
    /\ response # NoResponse
    /\ response.session_id = req[r].session_id

\* the rows of the answer
Listed == {response.rows[j].id : j \in DOMAIN response.rows}

\* C26: when the caller has seen the body of /generate_stream end in order,
\* the assistant message of the request is committed, and every listing of
\* the session answered from then on includes it.
C26_ListedAfterEndOfStream ==
    \A r \in Reqs :
        body[r] = "closed" =>
            /\ AssistantMessageStored(r)
            /\ ListingFor(r) => \E i \in AsstRows(r) : chat_history[i].id \in Listed

-----------------------------------------------------------------------------
(* Properties of failed requests of /generate_stream: configuration errors *)
(* under Spec, store failures under SpecLive                               *)

\* the requests answered 400 for a missing credential
ConfigFailed == {r \in Reqs : status[r] = 400 /\ cause[r] = "config"}

\* C27: a request answered 400 for a missing credential has its user
\* message in the store by then, exactly one, and no assistant message in
\* the store or on its way to it; every such request has added a user row
\* of its own, so that repeating the request adds one user message each
\* time.
C27_ConfigErrorAfterUserWrite ==
    /\ \A r \in ConfigFailed :
          /\ UserMessageStored(r)
          /\ AsstRows(r) = {}
          /\ Jobs(r, "assistant") = {}
          /\ pc[r] = "failed"
    /\ Cardinality(UNION {UserRows(r) : r \in ConfigFailed}) = Cardinality(ConfigFailed)

\* the same request was sent twice and refused twice: the store holds two
\* user messages with its question and nothing else
C27_Witness ==
    /\ ConfigFailed = Reqs
    /\ req["r1"] = req["r2"]
    /\ Len(chat_history) = 2
    /\ \A i \in DOMAIN chat_history :
          /\ chat_history[i].role = "user"
          /\ chat_history[i].message = req["r1"].question
          /\ chat_history[i].session_id = req["r1"].session_id

\* the write of the user message of request r failed: the await on it is
\* over and the store holds no user message of r
UserWriteFailed(r) ==
    /\ pc[r] \notin {"idle", "validating", "await_user_write", "rejected"}
    /\ UserRows(r) = {}

\* C28: a request whose write of the user message failed has ended with
\* HTTP 500 and a detail text, the provider was never asked for a fragment
\* of it, no fragment was relayed and no response body started, and the
\* store holds no user and no assistant message of the request, nor is one
\* on its way to the store.
C28_UserWriteFailureIs500 ==
    \A r \in Reqs :
        UserWriteFailed(r) =>
            /\ pc[r] = "failed" /\ cause[r] = "store"
            /\ status[r] = 500
            /\ detail[r] # ""
            /\ body[r] = "none"
            /\ pulled[r] = <<>> /\ relayed[r] = <<>> /\ ~exhausted[r]
            /\ UserRows(r) = {} /\ AsstRows(r) = {}
            /\ Jobs(r, "user") = {} /\ Jobs(r, "assistant") = {}

\* the user write of one request failed while the other request, in the
\* same session, went on to complete
C28_Witness ==
    \E r, q \in Reqs :
        /\ UserWriteFailed(r)
        /\ status[r] = 500
        /\ req[q].session_id = req[r].session_id
        /\ pc[q] = "completed"
        /\ AssistantMessageStored(q)

\* the turn under way has come to the end of get_streaming_response
\* through its except clause, without the stream having ended in order
TurnFailed ==
    /\ turns # <<>>
    /\ Last(turns).ended = "failed"
    /\ ppc = "done"

\* C29: when a chat turn has failed (an error status, a transport failure
\* or a failure in the middle of the stream), the local message list is
\* what it was before the turn, without the question, and the partial
\* response is cleared, while the user message the server wrote for the
\* turn is still in the store.
C29_FailedTurnRolledBack ==
    TurnFailed =>
        /\ messages = Last(turns).before
        /\ \A j \in DOMAIN messages :
              messages[j] # LocalMessage("user", Last(turns).prompt)
        /\ current_response = ""
        /\ UserWritten(http) =>
              /\ Cardinality(TurnRows(Last(turns).prompt, "user")) = 1
              /\ \A i \in TurnRows(Last(turns).prompt, "user") :
                    /\ chat_history[i].message = Last(turns).prompt
                    /\ chat_history[i].session_id = chat_session_id

\* the answer of the second turn broke off after a chunk was shown: the
\* local list is the question and answer of the first turn again, and the
\* store holds the second question
C29_Witness ==
    /\ TurnFailed
    /\ Len(turns) = 2
    /\ http.status_code = 200
    /\ http.broken # ""
    /\ yielded # <<>>
    /\ Len(messages) = 2
    /\ Last(messages).role = "assistant"
    /\ TurnRows(Last(turns).prompt, "user") # {}

\* the place of row i among the rows of its session, in creation order
PlaceInSession(i) ==
    Cardinality({k \in DOMAIN chat_history :
                    k <= i /\ chat_history[k].session_id = chat_history[i].session_id})

\* C30: GET /chat_history/{session_id} returns at most the 100 oldest
\* messages of the session: an answer has at most DefaultLimit rows, and
\* no message after the 100th of its session in creation order is in it.
C30_OldestHundredOnly ==
    response # NoResponse =>
        /\ Len(response.rows) <= DefaultLimit
        /\ \A j \in DOMAIN response.rows :
              PlaceInSession(response.rows[j].id) <= DefaultLimit

====
